---- MODULE Spec2Model ----
(***************************************************************************)
(* Roster reconciliation of the event planner: the form-submit handlers    *)
(* processRegistrationForm / processVolunteerForm / processSpeakerForm and *)
(* addOrUpdatePersonInPeopleSheet (src/GenerateCueSheet.js), run against   *)
(* the 'People' sheet of the host spreadsheet.                             *)
(*                                                                         *)
(* The sheet is a grid of string cells.  As in the host, the data range is *)
(* rows 1..lastRow by columns 1..lastColumn where lastRow / lastColumn are *)
(* the last row / column holding content, so a row of empty strings below  *)
(* the data is no row at all.                                              *)
(***************************************************************************)
EXTENDS Integers, Sequences, FiniteSets, TLC

VARIABLES peopleSheet, pc, frame, calls,
          config, eventDesc, triggers, formsCreated, formRun,
          cueBuilder, schedule, cueSheet, cueRun,
          taskEdits

\* the People sheet and the invocations that reconcile it
rosterVars == <<peopleSheet, pc, frame, calls>>
\* the Config and Event Description sheets, the project's triggers, the forms
\* created so far and the last run of a form or configuration function
formVars == <<config, eventDesc, triggers, formsCreated, formRun>>
\* the Cue Builder and Schedule sheets, the generated cue sheet and the last
\* run of the generator
cueVars == <<cueBuilder, schedule, cueSheet, cueRun>>
\* the changes the task management has made to Assigned Tasks cells of the
\* People sheet
taskVars == <<taskEdits>>

vars == <<rosterVars, formVars, cueVars, taskVars>>

(***************************************************************************)
(* Bounds of the model.                                                    *)
(***************************************************************************)
\* rows of data the People sheet may hold before the first call
MaxInitRows == 2
\* invocations (direct calls or form submissions) in one behaviour
MaxCalls == 2

Procs == {1, 2}

(***************************************************************************)
(* Small helpers.                                                          *)
(***************************************************************************)
Max(S) == CHOOSE m \in S : \A n \in S : n <= m

(***************************************************************************)
(* JavaScript arrays with holes: rowData = [] followed by indexed stores.  *)
(* An array is a function from the indices that were assigned (0-based; a  *)
(* store at index -1 creates a property, not an element) to values.        *)
(***************************************************************************)
EmptyArray == [i \in {} |-> ""]

ArrayStore(a, i, v) == [j \in DOMAIN a \cup {i} |-> IF j = i THEN v ELSE a[j]]

ArrayLength(a) ==
  LET elems == {i \in DOMAIN a : i >= 0}
  IN IF elems = {} THEN 0 ELSE Max(elems) + 1

\* if (colIndex) rowData[colIndex - 1] = value
StoreIfColumn(a, colIndex, v) ==
  IF colIndex # 0 THEN ArrayStore(a, colIndex - 1, v) ELSE a

\* for (i = 0; i < n; i++) if (rowData[i] === undefined) rowData[i] = ''
FillUndefined(a, n) ==
  [j \in DOMAIN a \cup (0 .. n - 1) |-> IF j \in DOMAIN a THEN a[j] ELSE ""]

\* the 1 x rowData.length block handed to setValues
ArrayValues(a) == [k \in 1 .. ArrayLength(a) |-> a[k - 1]]

(***************************************************************************)
(* The sheet.  cells is the data range as getValues returns it: row 1 is   *)
(* the header row.  An empty sheet has no cells.                           *)
(***************************************************************************)
NoSheet == [exists |-> FALSE, cells |-> << >>]

IsBlankRow(r) == \A c \in DOMAIN r : r[c] = ""

\* a last row that forgets the header row
GetLastRow_DataRowsOnly(sheet) == Len(sheet.cells) - 1

\* Sheet.getLastRow(): the last row that has content
GetLastRow(sheet) == Len(sheet.cells)

\* Sheet.getLastColumn(): the last column that has content
GetLastColumn(sheet) == IF sheet.cells = << >> THEN 0 ELSE Len(sheet.cells[1])

\* the content of one cell; a cell outside the data range is empty
Cell(sheet, r, c) ==
  IF r \in 1 .. Len(sheet.cells) /\ c \in 1 .. Len(sheet.cells[r])
  THEN sheet.cells[r][c] ELSE ""

\* Range.getValue() of the single cell (r, c)
GetValue(sheet, r, c) == Cell(sheet, r, c)

\* rows with no content at the bottom are not part of the data range
RECURSIVE TrimRows(_)
TrimRows(cs) ==
  IF cs = << >> THEN cs
  ELSE IF IsBlankRow(cs[Len(cs)]) THEN TrimRows(SubSeq(cs, 1, Len(cs) - 1))
  ELSE cs

\* a write that never lands on a row that has content: it goes below the
\* last row instead
SetValues_BelowContent(sheet, r, values) ==
  LET width  == GetLastColumn(sheet)
      row    == IF r <= Len(sheet.cells) THEN Len(sheet.cells) + 1 ELSE r
      grid   == [i \in 1 .. row |->
                  [c \in 1 .. width |->
                    IF i = row /\ c <= Len(values) THEN values[c]
                    ELSE Cell(sheet, i, c)]]
  IN [sheet EXCEPT !.cells = TrimRows(grid)]

\* Sheet.getRange(r, 1, 1, Len(values)).setValues([values])
SetValues(sheet, r, values) ==
  LET width  == GetLastColumn(sheet)
      height == IF r > Len(sheet.cells) THEN r ELSE Len(sheet.cells)
      grid   == [i \in 1 .. height |->
                  [c \in 1 .. width |->
                    IF i = r /\ c <= Len(values) THEN values[c]
                    ELSE Cell(sheet, i, c)]]
  IN [sheet EXCEPT !.cells = TrimRows(grid)]

\* a lookup that takes the Email column to be the third
ColIndex_EmailThird(headers, name) ==
  IF name = "Email" THEN 3
  ELSE IF \E i \in DOMAIN headers : headers[i] = name
  THEN CHOOSE i \in DOMAIN headers :
         headers[i] = name /\ \A j \in 1 .. i - 1 : headers[j] # name
  ELSE 0

\* headers.findIndex(header => header === name) + 1
ColIndex(headers, name) ==
  IF \E i \in DOMAIN headers : headers[i] = name
  THEN CHOOSE i \in DOMAIN headers :
         headers[i] = name /\ \A j \in 1 .. i - 1 : headers[j] # name
  ELSE 0

(***************************************************************************)
(* The incoming contact: an object whose properties name, email, phone,    *)
(* category, status, role, notes may each be absent.  A contact is a       *)
(* record over the properties it has.                                      *)
(***************************************************************************)
Has(data, field) == field \in DOMAIN data

\* data.field || ''
OrEmpty(data, field) == IF Has(data, field) THEN data[field] ELSE ""

\* a comparison that takes a missing email for the empty string
SameEmail_UndefinedAsEmpty(cell, data) == cell = OrEmpty(data, "email")

\* a comparison that ignores letter case, on the addresses of the inputs
FoldCase(s) == IF s = "ANA@X.COM" THEN "ana@x.com" ELSE s

SameEmail_CaseFolded(cell, data) ==
  Has(data, "email") /\ FoldCase(cell) = FoldCase(data["email"])

\* cell === data.email: a cell never equals undefined
SameEmail(cell, data) == Has(data, "email") /\ cell = data["email"]

(***************************************************************************)
(* addOrUpdatePersonInPeopleSheet, piece by piece.                         *)
(***************************************************************************)
RequiredColumns == {"Name", "Category", "Email"}

\* a check of the join key only
MissingRequired_EmailOnly(headers) == ColIndex(headers, "Email") = 0

\* !nameColIndex || !categoryColIndex || !emailColIndex
MissingRequired(headers) ==
  \/ ColIndex(headers, "Name") = 0
  \/ ColIndex(headers, "Category") = 0
  \/ ColIndex(headers, "Email") = 0

\* a scan that stops one row early (i < allData.length - 1)
FindExistingRow_StopsEarly(allData, emailColIndex, data) ==
  LET hits == {i \in 1 .. Len(allData) - 2 :
                 SameEmail(allData[i + 1][emailColIndex], data)}
  IN IF hits = {} THEN -1 ELSE CHOOSE i \in hits : \A j \in hits : i <= j

\* the scan for the first row with the incoming email; -1 when there is none
FindExistingRow(allData, emailColIndex, data) ==
  LET hits == {i \in 1 .. Len(allData) - 1 :
                 SameEmail(allData[i + 1][emailColIndex], data)}
  IN IF hits = {} THEN -1 ELSE CHOOSE i \in hits : \A j \in hits : i <= j

\* a formatting that also stores the notes, in a column named 'Notes'
FormatRowData_NotesStored(headers, data) ==
  LET r1 == StoreIfColumn(EmptyArray, ColIndex(headers, "Name"), OrEmpty(data, "name"))
      r2 == StoreIfColumn(r1, ColIndex(headers, "Category"), OrEmpty(data, "category"))
      r3 == StoreIfColumn(r2, ColIndex(headers, "Role/Position"), OrEmpty(data, "role"))
      r4 == StoreIfColumn(r3, ColIndex(headers, "Status"), OrEmpty(data, "status"))
      r5 == StoreIfColumn(r4, ColIndex(headers, "Email"), OrEmpty(data, "email"))
      r6 == StoreIfColumn(r5, ColIndex(headers, "Phone"), OrEmpty(data, "phone"))
  IN StoreIfColumn(r6, ColIndex(headers, "Notes"), OrEmpty(data, "notes"))

\* a formatting with the role and status columns exchanged
FormatRowData_RoleStatusSwapped(headers, data) ==
  LET r1 == StoreIfColumn(EmptyArray, ColIndex(headers, "Name"), OrEmpty(data, "name"))
      r2 == StoreIfColumn(r1, ColIndex(headers, "Category"), OrEmpty(data, "category"))
      r3 == StoreIfColumn(r2, ColIndex(headers, "Status"), OrEmpty(data, "role"))
      r4 == StoreIfColumn(r3, ColIndex(headers, "Role/Position"), OrEmpty(data, "status"))
      r5 == StoreIfColumn(r4, ColIndex(headers, "Email"), OrEmpty(data, "email"))
  IN StoreIfColumn(r5, ColIndex(headers, "Phone"), OrEmpty(data, "phone"))

\* const rowData = []; the six guarded stores
FormatRowData(headers, data) ==
  LET r1 == StoreIfColumn(EmptyArray, ColIndex(headers, "Name"), OrEmpty(data, "name"))
      r2 == StoreIfColumn(r1, ColIndex(headers, "Category"), OrEmpty(data, "category"))
      r3 == StoreIfColumn(r2, ColIndex(headers, "Role/Position"), OrEmpty(data, "role"))
      r4 == StoreIfColumn(r3, ColIndex(headers, "Status"), OrEmpty(data, "status"))
      r5 == StoreIfColumn(r4, ColIndex(headers, "Email"), OrEmpty(data, "email"))
  IN StoreIfColumn(r5, ColIndex(headers, "Phone"), OrEmpty(data, "phone"))

\* a match branch that starts Assigned Tasks afresh, as the add branch does
MergeRowData_TasksReset(rowData, headers, sheet, currentRow) ==
  FillUndefined(StoreIfColumn(rowData, ColIndex(headers, "Assigned Tasks"), ""),
                Len(headers))

\* the match branch up to the write: the current Assigned Tasks cell is read
\* from the sheet and stored, every hole is filled with ''
MergeRowData(rowData, headers, sheet, currentRow) ==
  LET atc == ColIndex(headers, "Assigned Tasks")
      kept == IF atc # 0
              THEN ArrayStore(rowData, atc - 1, GetValue(sheet, currentRow, atc))
              ELSE ArrayStore(rowData, atc - 1, "")
  IN FillUndefined(kept, Len(headers))

\* the no-match branch up to the write
AppendRowData(rowData, headers) ==
  FillUndefined(StoreIfColumn(rowData, ColIndex(headers, "Assigned Tasks"), ""),
                Len(headers))

(***************************************************************************)
(* The form-submit handlers.  An event is malformed (e.response missing,   *)
(* so that formResponse.getItemResponses() raises) or carries the          *)
(* respondent's email and the item responses in form order.  An answer is  *)
(* a string, or a list of strings (checkbox items).                        *)
(***************************************************************************)
Handlers == {"processRegistrationForm", "processVolunteerForm", "processSpeakerForm"}

Text(s) == [list |-> FALSE, text |-> <<s>>]

List(ss) == [list |-> TRUE, text |-> ss]

Item(title, answer) == [title |-> title, answer |-> answer]

\* answer.join(sep)
RECURSIVE Join(_, _)
Join(ss, sep) ==
  IF ss = << >> THEN ""
  ELSE IF Len(ss) = 1 THEN ss[1]
  ELSE ss[1] \o sep \o Join(Tail(ss), sep)

\* if (answer): an array is truthy, a string is truthy unless empty
Truthy(a) == a.list \/ a.text[1] # ""

\* `${answer}`: a string as it is, an array joined with ','
Interpolate(a) == IF a.list THEN Join(a.text, ",") ELSE a.text[1]

\* Array.isArray(answer) ? answer.join(', ') : answer
JoinedOrPlain(a) == IF a.list THEN Join(a.text, ", ") ELSE a.text[1]

RegistrationNotes ==
  {"Dietary Restrictions or Preferences", "Accessibility Needs",
   "How did you hear about this event?"}

VolunteerNotes == {"Availability", "T-Shirt Size", "Previous Volunteer Experience"}

SpeakerNotes ==
  {"Session Description", "Speaker Bio", "Headshot Photo Link",
   "AV/Technical Requirements", "Additional Notes or Requirements"}

\* the body of itemResponses.forEach in processRegistrationForm
RegistrationItem(data, it) ==
  LET q == it.title
      a == it.answer
  IN IF q = "Full Name" THEN [data EXCEPT !.name = Interpolate(a)]
     ELSE IF q = "Phone Number" THEN [data EXCEPT !.phone = Interpolate(a)]
     ELSE IF q \in RegistrationNotes /\ Truthy(a)
          THEN [data EXCEPT !.notes = @ \o q \o ": " \o Interpolate(a) \o "\n"]
     ELSE data

\* the body of itemResponses.forEach in processVolunteerForm
VolunteerItem(data, it) ==
  LET q == it.title
      a == it.answer
  IN IF q = "Full Name" THEN [data EXCEPT !.name = Interpolate(a)]
     ELSE IF q = "Phone Number" THEN [data EXCEPT !.phone = Interpolate(a)]
     ELSE IF q = "Preferred Role/Area"
          THEN IF a.list /\ Len(a.text) > 0
               THEN [data EXCEPT !.role = a.text[1],
                       !.notes = @ \o "Preferred Roles: " \o Join(a.text, ", ") \o "\n"]
               ELSE data
     ELSE IF q \in VolunteerNotes /\ Truthy(a)
          THEN [data EXCEPT !.notes = @ \o q \o ": " \o JoinedOrPlain(a) \o "\n"]
     ELSE data

\* the body of itemResponses.forEach in processSpeakerForm
SpeakerItem(data, it) ==
  LET q == it.title
      a == it.answer
  IN IF q = "Full Name" THEN [data EXCEPT !.name = Interpolate(a)]
     ELSE IF q = "Phone Number" THEN [data EXCEPT !.phone = Interpolate(a)]
     ELSE IF q = "Session Title" THEN [data EXCEPT !.role = Interpolate(a)]
     ELSE IF q \in SpeakerNotes /\ Truthy(a)
          THEN [data EXCEPT !.notes = @ \o q \o ": " \o JoinedOrPlain(a) \o "\n"]
     ELSE data

HandlerItem(handler, data, it) ==
  IF handler = "processRegistrationForm" THEN RegistrationItem(data, it)
  ELSE IF handler = "processVolunteerForm" THEN VolunteerItem(data, it)
  ELSE SpeakerItem(data, it)

\* let data = { name: '', email: email, phone: '', category, status, role: '', notes: '' }
InitialData(handler, email) ==
  [name |-> "", email |-> email, phone |-> "",
   category |-> IF handler = "processRegistrationForm" THEN "Participant"
                ELSE IF handler = "processVolunteerForm" THEN "Volunteer"
                ELSE "Speaker",
   status |-> IF handler = "processRegistrationForm" THEN "Registered" ELSE "Potential",
   role |-> "", notes |-> ""]

RECURSIVE ForEachItem(_, _, _)
ForEachItem(handler, data, items) ==
  IF items = << >> THEN data
  ELSE ForEachItem(handler, HandlerItem(handler, data, Head(items)), Tail(items))

\* the contact a handler builds from a well-formed event
ExtractData(handler, e) ==
  ForEachItem(handler, InitialData(handler, e.email), e.items)

\* Logger.log in the handler's catch
HandlerErrorLog(handler) ==
  IF handler = "processRegistrationForm" THEN "Error processing registration form submission"
  ELSE IF handler = "processVolunteerForm" THEN "Error processing volunteer form submission"
  ELSE "Error processing speaker form submission"

(***************************************************************************)
(* One invocation.  pc is the state of the per-call state machine; frame   *)
(* holds the locals of the call, and what the call has done so far:        *)
(*   caller    the handler that made the call, or a direct call            *)
(*   called    addOrUpdatePersonInPeopleSheet was entered                  *)
(*   before    the sheet when the invocation began                         *)
(*   writes    the setValues calls made                                    *)
(*   threw     an exception was raised during the invocation               *)
(*   escaped   that exception left the function the host invoked           *)
(*   logged    the last Logger.log message (its fixed prefix)              *)
(* and, of the invocation this one followed: prevData (its contact, if it  *)
(* entered addOrUpdatePersonInPeopleSheet), prevBefore, prevThrew.         *)
(* calls counts the invocations delivered.                                 *)
(***************************************************************************)
Direct == "direct"

\* the frame before any invocation
NoFrame(sheet) ==
  [caller |-> Direct, called |-> FALSE, data |-> << >>, before |-> sheet,
   prevData |-> << >>, prevBefore |-> sheet, prevThrew |-> FALSE,
   headers |-> << >>, existingRowIndex |-> -1, rowData |-> EmptyArray,
   targetRow |-> 0, writes |-> 0, threw |-> FALSE, escaped |-> FALSE,
   logged |-> ""]

NewFrame(caller, called, data, sheet, old) ==
  [caller |-> caller, called |-> called, data |-> data, before |-> sheet,
   prevData |-> IF old.called THEN <<old.data>> ELSE << >>,
   prevBefore |-> old.before, prevThrew |-> old.threw,
   headers |-> << >>, existingRowIndex |-> -1, rowData |-> EmptyArray,
   targetRow |-> 0, writes |-> 0, threw |-> FALSE, escaped |-> FALSE,
   logged |-> ""]

\* an exception that no handler catches
Raise_Uncaught(f) == [f EXCEPT !.threw = TRUE, !.escaped = TRUE]

\* an exception unwinds to the try/catch of the handler, which logs it and
\* returns, or out of a direct call
Raise(f) ==
  IF f.caller \in Handlers
  THEN [f EXCEPT !.threw = TRUE, !.logged = HandlerErrorLog(f.caller)]
  ELSE [f EXCEPT !.threw = TRUE, !.escaped = TRUE]

Idle(p) == pc[p] \in {"IDLE", "END"}

\* a direct call addOrUpdatePersonInPeopleSheet(data)
Call(p, data) ==
  /\ Idle(p)
  /\ calls < MaxCalls
  /\ pc' = [pc EXCEPT ![p] = "START"]
  /\ frame' = [frame EXCEPT ![p] = NewFrame(Direct, TRUE, data, peopleSheet, frame[p])]
  /\ calls' = calls + 1
  /\ UNCHANGED peopleSheet
  /\ UNCHANGED <<formVars, cueVars, taskVars>>

\* ss.getSheetByName('People'); if (!peopleSheet) { log; return }
GetSheet(p) ==
  /\ pc[p] = "START"
  /\ IF peopleSheet.exists
     THEN /\ pc' = [pc EXCEPT ![p] = "LOCATE_SCHEMA"]
          /\ UNCHANGED frame
     ELSE /\ pc' = [pc EXCEPT ![p] = "END"]
          /\ frame' = [frame EXCEPT ![p].logged = "People sheet not found"]
  /\ UNCHANGED <<peopleSheet, calls>>
  /\ UNCHANGED <<formVars, cueVars, taskVars>>

\* the header row is read with getRange(1, 1, 1, getLastColumn()), which
\* raises when the sheet has no content (a range of 0 columns); then the
\* required columns are checked
LocateSchema(p) ==
  /\ pc[p] = "LOCATE_SCHEMA"
  /\ IF GetLastColumn(peopleSheet) = 0
     THEN /\ pc' = [pc EXCEPT ![p] = "END"]
          /\ frame' = [frame EXCEPT ![p] = Raise(frame[p])]
     ELSE LET headers == peopleSheet.cells[1]
          IN IF MissingRequired(headers)
             THEN /\ pc' = [pc EXCEPT ![p] = "END"]
                  /\ frame' = [frame EXCEPT ![p].headers = headers,
                                 ![p].logged = "Required columns not found in People sheet"]
             ELSE /\ pc' = [pc EXCEPT ![p] = "SCAN_FOR_MATCH"]
                  /\ frame' = [frame EXCEPT ![p].headers = headers]
  /\ UNCHANGED <<peopleSheet, calls>>
  /\ UNCHANGED <<formVars, cueVars, taskVars>>

\* getDataRange().getValues(), the scan, and the formatting of rowData
ScanForMatch(p) ==
  /\ pc[p] = "SCAN_FOR_MATCH"
  /\ LET f == frame[p]
         allData == peopleSheet.cells
         idx == FindExistingRow(allData, ColIndex(f.headers, "Email"), f.data)
     IN /\ frame' = [frame EXCEPT ![p].existingRowIndex = idx,
                                  ![p].rowData = FormatRowData(f.headers, f.data)]
        /\ pc' = [pc EXCEPT ![p] = IF idx # -1 THEN "MERGE" ELSE "APPEND"]
  /\ UNCHANGED <<peopleSheet, calls>>
  /\ UNCHANGED <<formVars, cueVars, taskVars>>

\* existing record found: currentRow, the read of Assigned Tasks, the fill
MergePreserveUnknown(p) ==
  /\ pc[p] = "MERGE"
  /\ LET f == frame[p]
         currentRow == f.existingRowIndex + 1
     IN frame' = [frame EXCEPT
                    ![p].rowData = MergeRowData(f.rowData, f.headers, peopleSheet, currentRow),
                    ![p].targetRow = currentRow]
  /\ pc' = [pc EXCEPT ![p] = "WRITE_ROW"]
  /\ UNCHANGED <<peopleSheet, calls>>
  /\ UNCHANGED <<formVars, cueVars, taskVars>>

\* no existing record: the fill, then newRow = getLastRow() + 1
AppendNew(p) ==
  /\ pc[p] = "APPEND"
  /\ LET f == frame[p]
     IN frame' = [frame EXCEPT
                    ![p].rowData = AppendRowData(f.rowData, f.headers),
                    ![p].targetRow = GetLastRow(peopleSheet) + 1]
  /\ pc' = [pc EXCEPT ![p] = "WRITE_ROW"]
  /\ UNCHANGED <<peopleSheet, calls>>
  /\ UNCHANGED <<formVars, cueVars, taskVars>>

\* getRange(row, 1, 1, rowData.length).setValues([rowData]) and the log line
WriteRow(p) ==
  /\ pc[p] = "WRITE_ROW"
  /\ LET f == frame[p]
     IN /\ peopleSheet' = SetValues(peopleSheet, f.targetRow, ArrayValues(f.rowData))
        /\ frame' = [frame EXCEPT ![p].writes = f.writes + 1,
                       ![p].logged = IF f.existingRowIndex # -1
                                     THEN "Updated existing person"
                                     ELSE "Added new person"]
  /\ pc' = [pc EXCEPT ![p] = "END"]
  /\ UNCHANGED calls
  /\ UNCHANGED <<formVars, cueVars, taskVars>>

\* the host delivers a form-submit event e to handler(e): the whole try block
\* up to the call of addOrUpdatePersonInPeopleSheet(data); an exception
\* raised while extracting is caught and logged by the handler
Submit(p, handler, e) ==
  /\ Idle(p)
  /\ calls < MaxCalls
  /\ IF e.ok
     THEN /\ pc' = [pc EXCEPT ![p] = "START"]
          /\ frame' = [frame EXCEPT ![p] =
                         NewFrame(handler, TRUE, ExtractData(handler, e), peopleSheet, frame[p])]
     ELSE /\ pc' = [pc EXCEPT ![p] = "END"]
          /\ frame' = [frame EXCEPT ![p] =
                         Raise(NewFrame(handler, FALSE, << >>, peopleSheet, frame[p]))]
  /\ calls' = calls + 1
  /\ UNCHANGED peopleSheet
  /\ UNCHANGED <<formVars, cueVars, taskVars>>

(***************************************************************************)
(* Strings, character by character: toLowerCase and toUpperCase.           *)
(***************************************************************************)
LowerLetters == "abcdefghijklmnopqrstuvwxyz"

UpperLetters == "ABCDEFGHIJKLMNOPQRSTUVWXYZ"

CharAt(s, i) == SubSeq(s, i, i)

\* the place of character ch in letters, 0 when it is not one of them
IndexIn(letters, ch) ==
  IF \E i \in 1 .. Len(letters) : CharAt(letters, i) = ch
  THEN CHOOSE i \in 1 .. Len(letters) : CharAt(letters, i) = ch
  ELSE 0

RECURSIVE MapChars(_, _, _)
MapChars(s, from, to) ==
  IF Len(s) = 0 THEN s
  ELSE LET k == IndexIn(from, CharAt(s, 1))
       IN (IF k = 0 THEN CharAt(s, 1) ELSE CharAt(to, k))
            \o MapChars(SubSeq(s, 2, Len(s)), from, to)

\* String.prototype.toUpperCase()
ToUpperCase(s) == MapChars(s, LowerLetters, UpperLetters)

(***************************************************************************)
(* Sheets of the form and configuration functions.  A sheet is, as above,  *)
(* the grid getDataRange().getValues() returns; the Config sheet has in    *)
(* addition its row banding, which Sheet.clear() (content and formats)     *)
(* leaves in place and which makes a second applyRowBanding on the same    *)
(* rows raise.                                                             *)
(***************************************************************************)
NoConfig == [exists |-> FALSE, cells |-> << >>, banded |-> FALSE]

\* getDataRange().getValues(): a sheet without content gives one empty cell
GetDataRangeValues(sheet) ==
  IF sheet.cells = << >> THEN << <<"">> >> ELSE sheet.cells

\* a clear that leaves the content in place
ClearSheet_KeepsContent(sheet) == sheet

\* configSheet.clear()
ClearSheet(sheet) == [sheet EXCEPT !.cells = << >>]

\* getRange(r0, c0, Len(block), Len(block[1])).setValues(block)
SetBlock(sheet, r0, c0, block) ==
  LET width  == Max({GetLastColumn(sheet), c0 + Len(block[1]) - 1})
      height == Max({Len(sheet.cells), r0 + Len(block) - 1})
      grid   == [i \in 1 .. height |->
                  [c \in 1 .. width |->
                    IF /\ i \in r0 .. r0 + Len(block) - 1
                       /\ c \in c0 .. c0 + Len(block[1]) - 1
                    THEN block[i - r0 + 1][c - c0 + 1]
                    ELSE Cell(sheet, i, c)]]
  IN [sheet EXCEPT !.cells = TrimRows(grid)]

(***************************************************************************)
(* setupConfigSheet (src/Config.js).                                       *)
(***************************************************************************)
ConfigHeaders == <<"Key / Template Name", "Value / Subject", "Body">>

ConfigData ==
  << <<"Event Type", "Single,Multi", "">>,
     <<"Status Options", "Tentative,Confirmed,Cancelled", "">>,
     <<"People Categories", "Staff,Volunteer,Speaker,Participant", "">>,
     <<"People Statuses", "Potential,Invited,Accepted,Registered,Unavailable", "">>,
     <<"Budget Cost Basis", "Flat,Per Person", "">>,
     <<"Location List", "Main Hall,Room 101,Room 102,Outdoor Area", "">>,
     <<"Task Status Options", "Not Started,In Progress,Blocked,Done,Cancelled", "">>,
     <<"Task Priority Options", "High,Medium,Low", "">>,
     <<"Owners", "John Doe,Jane Smith,Alex Johnson,Maria Garcia,Sam Wilson,Eduardo,Mika,Junpei", "">>,
     <<"Look-Ahead Days", "1", "">>,
     <<"Reminder Lead Time (days)", "2", "">>,
     <<"New-Event Template ID", "", "">>,
     <<"Default Food Rate ($/person)", "10", "">>,
     <<"OpenAI API Key", "", "[I will enter the key manually]">>,
     <<"registration form", "", "">>,
     <<"volunteer sign up", "", "">>,
     <<"speaker form", "", "">>,
     <<"InviteTemplate", "Invitation: {{name}} for [EVENT NAME]",
       "Hi {{name}},\n\nYou are invited to [EVENT NAME]!\n\n[Add event details like date, time, location.]\n\nPlease RSVP by [RSVP Date].\n\nMore info here: [Link]\n\nBest regards,\n[Your Name/Org]">>,
     <<"ReminderTemplate", "Reminder: [EVENT NAME] is coming up!",
       "Hi {{name}},\n\nJust a friendly reminder about the upcoming event: [EVENT NAME] on [Date] at [Time].\n\nLocation: [Location]\n\nWe look forward to seeing you!\n\nBest regards,\n[Your Name/Org]">>,
     <<"ThankYouTemplate", "Thank You for Attending [EVENT NAME]!",
       "Hi {{name}},\n\nThank you for attending [EVENT NAME]!\n\nWe hope you enjoyed it. [Optional: Add link to slides, photos, feedback survey, etc.]\n\nBest regards,\n[Your Name/Org]">> >>

\* the whole function: the sheet it leaves, whether it raised, and its alert.
\* The sheet is created or cleared, the header row and the entries are
\* written (lines 21 and 63), and then applyRowBanding (line 68) raises on a
\* sheet that is banded already.
SetupConfigFilled(filled) ==
  IF filled.banded
  THEN [config |-> filled, raised |-> TRUE, alert |-> ""]
  ELSE [config |-> [filled EXCEPT !.banded = TRUE], raised |-> FALSE,
        alert |-> "Config sheet has been set up with default values."]

SetupConfig(cfg) ==
  SetupConfigFilled(
    SetBlock(SetBlock(IF ~cfg.exists
                      THEN [exists |-> TRUE, cells |-> << >>, banded |-> FALSE]
                      ELSE ClearSheet(cfg),
                      1, 1, <<ConfigHeaders>>),
             2, 1, ConfigData))

\* the strings found in column A of a Config sheet made by hand
HandMadeKeys == {"Key", "Registration Form", "VOLUNTEER SIGN UP", "Sponsors", "Notes"}

\* the header rows of the 'Cue Builder' and 'Schedule' sheets: as the
\* workbook has them, and as a user may have rearranged them
CueBuilderHeader ==
  <<"Schedule Item", "Cue Title", "Lead / Talent", "Est. Duration (mins)",
    "MC Script / Notes", "Lighting Cue", "Audio / Sound Cue", "Visuals / Screen Cue">>

CueBuilderHeaderMoved ==
  <<"CUE TITLE", "Est. Duration (mins)", "SCHEDULE ITEM", "Lead / Talent",
    "MC Script / Notes", "Lighting Cue", "Audio / Sound Cue", "Visuals / Screen Cue">>

CueBuilderHeaderNoTitle ==
  <<"Schedule Item", "Title", "Lead / Talent", "Est. Duration (mins)",
    "MC Script / Notes", "Lighting Cue", "Audio / Sound Cue", "Visuals / Screen Cue">>

ScheduleHeader == <<"Session Title", "Start Time">>

ScheduleHeaderMoved == <<"START TIME", "Room", "SESSION TITLE">>

SheetHeaderTexts ==
  UNION {{h[c] : c \in DOMAIN h} :
           h \in {CueBuilderHeader, CueBuilderHeaderMoved, CueBuilderHeaderNoTitle,
                  ScheduleHeader, ScheduleHeaderMoved}}

\* the strings the program puts in lower case, each with its lower case
\* computed once
LowerCased ==
  LET known == {ConfigHeaders[1]} \cup {ConfigData[i][1] : i \in DOMAIN ConfigData}
                 \cup HandMadeKeys \cup SheetHeaderTexts
  IN  {<<s, MapChars(s, UpperLetters, LowerLetters)>> : s \in known}

\* String.prototype.toLowerCase()
ToLowerCase(s) ==
  IF \E e \in LowerCased : e[1] = s
  THEN (CHOOSE e \in LowerCased : e[1] = s)[2]
  ELSE MapChars(s, UpperLetters, LowerLetters)

(***************************************************************************)
(* The form generator (src/GenerateCueSheet.js).  null is a value of its   *)
(* own.                                                                    *)
(***************************************************************************)
Null == "null"

\* _findRow(sheet, label): the first row whose column A is label, 0 for null
FindRow(sheet, label) ==
  LET hits == {r \in 1 .. Len(sheet.cells) : Cell(sheet, r, 1) = label}
  IN IF hits = {} THEN 0 ELSE CHOOSE r \in hits : \A q \in hits : r <= q

\* getEventName(): column B of the 'Event Name' row of 'Event Description'
GetEventName(sheet) ==
  IF ~sheet.exists THEN Null
  ELSE LET eventNameRow == FindRow(sheet, "Event Name")
       IN IF eventNameRow = 0 THEN Null
          ELSE IF Cell(sheet, eventNameRow, 2) = "" THEN Null
          ELSE Cell(sheet, eventNameRow, 2)

FormKeys == <<"registration form", "volunteer sign up", "speaker form">>

\* row[0] && row[0].toString().toLowerCase() === key.toLowerCase()
KeyRow(row, key) == row[1] # "" /\ ToLowerCase(row[1]) = ToLowerCase(key)

\* checkConfigEntries()
CheckConfigEntries(cfg) ==
  /\ cfg.exists
  /\ \A k \in DOMAIN FormKeys :
       \E i \in DOMAIN GetDataRangeValues(cfg) :
         KeyRow(GetDataRangeValues(cfg)[i], FormKeys[k])

\* key.charAt(0).toUpperCase() + key.slice(1)
Capitalize(key) == ToUpperCase(CharAt(key, 1)) \o SubSeq(key, 2, Len(key))

HyperlinkFormula(url, key) ==
  "=HYPERLINK(\"" \o url \o "\",\"" \o Capitalize(key) \o "\")"

\* saveFormUrl(key, url, editUrl): the formula goes into column B of the
\* first row with the key; without the sheet or the key nothing is written
SaveFormUrl(cfg, key, url) ==
  IF ~cfg.exists THEN cfg
  ELSE LET data == GetDataRangeValues(cfg)
           hits == {i \in DOMAIN data : KeyRow(data[i], key)}
       IN IF hits = {} THEN cfg
          ELSE SetBlock(cfg, CHOOSE i \in hits : \A j \in hits : i <= j, 2,
                        << <<HyperlinkFormula(url, key)>> >>)

CreateFunctions ==
  {"createRegistrationForm", "createVolunteerSignupForm", "createSpeakerBioForm"}

KeyOf ==
  [createRegistrationForm |-> "registration form",
   createVolunteerSignupForm |-> "volunteer sign up",
   createSpeakerBioForm |-> "speaker form"]

HandlerOf ==
  [createRegistrationForm |-> "processRegistrationForm",
   createVolunteerSignupForm |-> "processVolunteerForm",
   createSpeakerBioForm |-> "processSpeakerForm"]

\* what the host does with a create function's calls: all succeed; the
\* creation of the trigger raises; FormApp.create raises
HostOutcomes == {"ok", "noTrigger", "noForm"}

OnFormSubmit == "ON_FORM_SUBMIT"

\* ScriptApp.newTrigger(handler).forForm(form.getId()).onFormSubmit().create()
FormTrigger(handler, form) ==
  [eventType |-> OnFormSubmit, handlerFunction |-> handler, source |-> form]

\* form.getPublishedUrl() of the form with the given id
PublishedUrl(form) == "https://docs.google.com/forms/d/e/" \o ToString(form) \o "/viewform"

\* a create function for which a failed trigger is a failed form
CreateForm_TriggerFailureFatal(fn, w, sheet, outcome) ==
  IF GetEventName(sheet) = Null \/ outcome # "ok"
  THEN [w |-> w, result |-> Null]
  ELSE LET form == w.formsCreated + 1
       IN [w |-> [config |-> SaveFormUrl(w.config, KeyOf[fn], PublishedUrl(form)),
                  triggers |-> w.triggers \cup {FormTrigger(HandlerOf[fn], form)},
                  formsCreated |-> form],
           result |-> PublishedUrl(form)]

\* createRegistrationForm / createVolunteerSignupForm / createSpeakerBioForm
\* on the world w = (Config sheet, triggers, forms created), with the Event
\* Description sheet: the world it leaves and the value it returns.  Whatever
\* is raised in the try block is caught and makes the result null; what the
\* creation of the trigger raises is caught on its own.
CreateForm(fn, w, sheet, outcome) ==
  IF GetEventName(sheet) = Null \/ outcome = "noForm"
  THEN [w |-> w, result |-> Null]
  ELSE LET form == w.formsCreated + 1
       IN [w |-> [config |-> SaveFormUrl(w.config, KeyOf[fn], PublishedUrl(form)),
                  triggers |-> IF outcome = "noTrigger" THEN w.triggers
                               ELSE w.triggers \cup {FormTrigger(HandlerOf[fn], form)},
                  formsCreated |-> form],
           result |-> PublishedUrl(form)]

\* the loop over ScriptApp.getProjectTriggers() of showFormGeneratorDialog
DeleteFormSubmitTriggers(ts) == {t \in ts : t.eventType # OnFormSubmit}

\* showFormGeneratorDialog() with outcomes[fn] the host outcome of each create
\* function: the world it leaves, the three results, whether it raised, and
\* the title of its alert.  From the last step back to the first: the summary
\* alert; the speaker form; the volunteer form; after setupConfigSheet (which
\* may have raised), the deletion of the form-submit triggers and the
\* registration form; and the check of the event name and of the Config
\* entries.
DialogDone(reg, vol, spk) ==
  [w |-> spk.w, results |-> <<reg.result, vol.result, spk.result>>,
   raised |-> FALSE, alert |-> "Forms Generated"]

DialogAfterVolunteer(reg, vol, sheet, outcomes) ==
  DialogDone(reg, vol,
             CreateForm("createSpeakerBioForm", vol.w, sheet,
                        outcomes["createSpeakerBioForm"]))

DialogAfterRegistration(reg, sheet, outcomes) ==
  DialogAfterVolunteer(reg,
                       CreateForm("createVolunteerSignupForm", reg.w, sheet,
                                  outcomes["createVolunteerSignupForm"]),
                       sheet, outcomes)

DialogAfterSetup(w, setup, sheet, outcomes) ==
  IF setup.raised
  THEN [w |-> [w EXCEPT !.config = setup.config], results |-> << >>,
        raised |-> TRUE, alert |-> ""]
  ELSE DialogAfterRegistration(
         CreateForm("createRegistrationForm",
                    [w EXCEPT !.config = setup.config,
                              !.triggers = DeleteFormSubmitTriggers(w.triggers)],
                    sheet, outcomes["createRegistrationForm"]),
         sheet, outcomes)

ShowDialog(w, sheet, outcomes) ==
  IF GetEventName(sheet) = Null
  THEN [w |-> w, results |-> << >>, raised |-> FALSE, alert |-> "Error"]
  ELSE DialogAfterSetup(w,
                        IF CheckConfigEntries(w.config)
                        THEN [config |-> w.config, raised |-> FALSE, alert |-> ""]
                        ELSE SetupConfig(w.config),
                        sheet, outcomes)

\* the world the form functions act on
World == [config |-> config, triggers |-> triggers, formsCreated |-> formsCreated]

AllOk == [fn \in CreateFunctions |-> "ok"]

\* the record of the last run: the function run, the world it found, the
\* host outcomes it met, what it returned (a create function its result, the
\* dialog the three results), whether it raised, the title of its alert, the
\* function run before it, and the number of runs so far
NoFormRun(w) ==
  [op |-> "", before |-> w, outcomes |-> AllOk, results |-> << >>,
   raised |-> FALSE, alert |-> "", prevOp |-> "", count |-> 0]

FormRunOf(op, outcomes, results, raised, alert) ==
  [op |-> op, before |-> World, outcomes |-> outcomes, results |-> results,
   raised |-> raised, alert |-> alert, prevOp |-> formRun.op,
   count |-> formRun.count + 1]

\* runs of form and configuration functions in one behaviour
MaxFormRuns == 2

\* a run that left world w
FormsStep(op, outcomes, w, results, raised, alert) ==
  /\ formRun.count < MaxFormRuns
  /\ config' = w.config
  /\ triggers' = w.triggers
  /\ formsCreated' = w.formsCreated
  /\ formRun' = FormRunOf(op, outcomes, results, raised, alert)
  /\ UNCHANGED <<eventDesc, rosterVars, cueVars, taskVars>>

SetupDone(r) ==
  FormsStep("setupConfigSheet", AllOk, [World EXCEPT !.config = r.config], << >>,
            r.raised, r.alert)

\* setupConfigSheet(), run on its own
SetupConfigSheet == SetupDone(SetupConfig(config))

CreateDone(fn, outcome, r) ==
  FormsStep(fn, [AllOk EXCEPT ![fn] = outcome], r.w, <<r.result>>, FALSE, "")

\* one of the three create functions, run on its own
CreateFormCall(fn, outcome) ==
  CreateDone(fn, outcome, CreateForm(fn, World, eventDesc, outcome))

CreateRegistrationForm(outcome) == CreateFormCall("createRegistrationForm", outcome)

CreateVolunteerSignupForm(outcome) == CreateFormCall("createVolunteerSignupForm", outcome)

CreateSpeakerBioForm(outcome) == CreateFormCall("createSpeakerBioForm", outcome)

\* the menu item 'Generate Google Forms'
DialogReturned(outcomes, r) ==
  FormsStep("showFormGeneratorDialog", outcomes, r.w, r.results, r.raised, r.alert)

ShowFormGeneratorDialog(outcomes) ==
  DialogReturned(outcomes, ShowDialog(World, eventDesc, outcomes))

(***************************************************************************)
(* The cue sheet generator (src/GenerateCueSheet.js).  The cells of the    *)
(* 'Cue Builder' and 'Schedule' sheets hold values of several types: text, *)
(* numbers and dates.  A number is kept as twice its value, which is       *)
(* enough for durations in half minutes; a date as its minutes since the   *)
(* midnight of the event's day (its seconds are never changed).  The cells *)
(* of the schedule item and cue title columns hold text.                   *)
(***************************************************************************)
StrV(s) == [t |-> "string", s |-> s]

NumV(twice) == [t |-> "number", twice |-> twice]

DateV(minutes) == [t |-> "date", minutes |-> minutes]

NullV == [t |-> "null"]

Undefined == [t |-> "undefined"]

NaN == [t |-> "NaN"]

\* the truth value JavaScript gives a value
IsTruthy(v) ==
  CASE v.t = "string" -> v.s # ""
    [] v.t = "number" -> v.twice # 0
    [] v.t = "date" -> TRUE
    [] OTHER -> FALSE

\* h.toString() of a text cell
ToStr(v) == IF v.t = "string" THEN v.s ELSE ""

Digits == "0123456789"

\* the number the leading digits of s spell, from acc; parsing stops at the
\* first character that is no digit
RECURSIVE DigitsValue(_, _)
DigitsValue(s, acc) ==
  IF Len(s) = 0 \/ IndexIn(Digits, CharAt(s, 1)) = 0 THEN acc
  ELSE DigitsValue(SubSeq(s, 2, Len(s)), 10 * acc + IndexIn(Digits, CharAt(s, 1)) - 1)

RECURSIVE SkipSpaces(_)
SkipSpaces(s) ==
  IF Len(s) > 0 /\ CharAt(s, 1) = " " THEN SkipSpaces(SubSeq(s, 2, Len(s))) ELSE s

\* parseFloat(v): a number is itself; a text is the number its leading digits
\* spell (the texts of the model have no sign, point or exponent), NaN when
\* it does not begin with a digit; anything else is NaN
ParseFloat(v) ==
  CASE v.t = "number" -> v
    [] v.t = "string" ->
         IF Len(SkipSpaces(v.s)) > 0 /\ IndexIn(Digits, CharAt(SkipSpaces(v.s), 1)) # 0
         THEN NumV(2 * DigitsValue(SkipSpaces(v.s), 0))
         ELSE NaN
    [] OTHER -> NaN

\* x || 0
OrZero(v) == IF IsTruthy(v) THEN v ELSE NumV(0)

\* `${durationMins}` of a number that is not negative
NumberText(twice) == ToString(twice \div 2) \o (IF twice % 2 = 1 THEN ".5" ELSE "")

\* headers.indexOf(name) + 1: 0 when the name is not a header
IndexOf(headers, name) ==
  IF \E i \in DOMAIN headers : headers[i] = name
  THEN CHOOSE i \in DOMAIN headers :
         headers[i] = name /\ \A j \in 1 .. i - 1 : headers[j] # name
  ELSE 0

\* row[headers.indexOf(name)]: undefined when the name is not a header
Field(row, headers, name) ==
  IF IndexOf(headers, name) = 0 THEN Undefined ELSE row[IndexOf(headers, name)]

\* getDataRange().getValues() of a sheet of typed cells
GetDataRangeTyped(sheet) ==
  IF sheet.cells = << >> THEN << <<StrV("")>> >> ELSE sheet.cells

\* data[0].map(h => h.toString().toLowerCase())
LowerHeaders(data) == [c \in DOMAIN data[1] |-> ToLowerCase(ToStr(data[1][c]))]

\* the cue object of the data row at index (0-based, after the header row)
CueObject(row, headers, index) ==
  [scheduleItem |-> Field(row, headers, "schedule item"),
   cueTitle     |-> Field(row, headers, "cue title"),
   lead         |-> Field(row, headers, "lead / talent"),
   duration     |-> OrZero(Field(row, headers, "est. duration (mins)")),
   mcScript     |-> Field(row, headers, "mc script / notes"),
   lightingCue  |-> Field(row, headers, "lighting cue"),
   audioCue     |-> Field(row, headers, "audio / sound cue"),
   visualsCue   |-> Field(row, headers, "visuals / screen cue"),
   originalRow  |-> index + 2]

\* a filter that asks for a schedule item only
ValidCue_ItemOnly(cue) == IsTruthy(cue.scheduleItem)

\* cue => cue.scheduleItem && cue.cueTitle
ValidCue(cue) == IsTruthy(cue.scheduleItem) /\ IsTruthy(cue.cueTitle)

CueObjects(data, headers) ==
  [i \in 1 .. Len(data) - 1 |-> CueObject(data[i + 1], headers, i - 1)]

\* getCueBuilderData(ss): it raises when there is no 'Cue Builder' sheet
GetCueBuilderData(sheet) ==
  IF ~sheet.exists THEN [threw |-> TRUE, cues |-> << >>]
  ELSE IF Len(GetDataRangeTyped(sheet)) < 2 THEN [threw |-> FALSE, cues |-> << >>]
  ELSE [threw |-> FALSE,
        cues |-> SelectSeq(CueObjects(GetDataRangeTyped(sheet),
                                      LowerHeaders(GetDataRangeTyped(sheet))),
                           ValidCue)]

\* the last Schedule row whose session title is item and whose title and
\* start time are both truthy gives the start time: undefined without one
ScheduleStart(data, headers, item) ==
  IF \E i \in 2 .. Len(data) :
       /\ Field(data[i], headers, "session title") = item
       /\ IsTruthy(item)
       /\ IsTruthy(Field(data[i], headers, "start time"))
  THEN Field(data[CHOOSE i \in 2 .. Len(data) :
                    /\ Field(data[i], headers, "session title") = item
                    /\ IsTruthy(item)
                    /\ IsTruthy(Field(data[i], headers, "start time"))
                    /\ \A j \in i + 1 .. Len(data) :
                         ~(/\ Field(data[j], headers, "session title") = item
                           /\ IsTruthy(Field(data[j], headers, "start time")))],
             headers, "start time")
  ELSE Undefined

\* the running time a section starts with: a copy of its start time when
\* that is a date, null otherwise
SectionStart(data, headers, item) ==
  IF ScheduleStart(data, headers, item).t = "date"
  THEN ScheduleStart(data, headers, item)
  ELSE NullV

\* the names of schedule items and events, each with its upper case computed
\* once
ScheduleItemNames == {"Opening", "Keynote", "Break"}

EventNames == {"Gala", ""}

UpperCased == {<<s, ToUpperCase(s)>> : s \in ScheduleItemNames \cup EventNames}

UpperOf(s) ==
  IF \E e \in UpperCased : e[1] = s
  THEN (CHOOSE e \in UpperCased : e[1] = s)[2]
  ELSE ToUpperCase(s)

SeparatorRow(item) ==
  <<StrV(""), StrV(""), StrV(""), StrV("--- " \o UpperOf(item.s) \o " ---"),
    StrV(""), StrV(""), StrV(""), StrV(""), StrV("")>>

\* parseFloat(cue.duration) || 0
DurationMins(cue) ==
  IF IsTruthy(ParseFloat(cue.duration)) THEN ParseFloat(cue.duration) ELSE NumV(0)

\* the integer part of half of x2
TruncHalf(x2) == IF x2 >= 0 THEN x2 \div 2 ELSE -((-x2) \div 2)

\* date.setMinutes(date.getMinutes() + mins): the minutes of the hour are
\* set to the integer part of the sum
SetMinutes(date, twice) ==
  DateV(60 * (date.minutes \div 60) + TruncHalf(2 * (date.minutes % 60) + twice))

AdvanceTime(runningTime, twice) ==
  IF runningTime.t = "date" THEN SetMinutes(runningTime, twice) ELSE runningTime

CueRow(cueNumber, cueStartTime, cue) ==
  <<NumV(2 * cueNumber), cueStartTime,
    StrV(IF DurationMins(cue).twice > 0
         THEN NumberText(DurationMins(cue).twice) \o "m" ELSE ""),
    cue.cueTitle, cue.lead, cue.mcScript, cue.lightingCue, cue.audioCue,
    cue.visualsCue>>

\* a section test that lets the first cue pass
IsNewSection_NotAtFirst(cue, currentScheduleItem) ==
  currentScheduleItem # StrV("") /\ cue.scheduleItem # currentScheduleItem

\* cue.scheduleItem !== currentScheduleItem
IsNewSection(cue, currentScheduleItem) == cue.scheduleItem # currentScheduleItem

\* the loop over cueData from cue i on, with the loop's variables
RECURSIVE PopulateFrom(_, _, _, _, _, _, _, _)
RECURSIVE PopulateCue(_, _, _, _, _, _, _, _)
PopulateFrom(cueData, i, runningTime, currentScheduleItem, cueNumber, outputData, data, headers) ==
  IF i > Len(cueData) THEN outputData
  ELSE IF IsNewSection(cueData[i], currentScheduleItem)
  THEN PopulateCue(cueData, i, SectionStart(data, headers, cueData[i].scheduleItem),
                   cueData[i].scheduleItem, cueNumber,
                   Append(outputData, SeparatorRow(cueData[i].scheduleItem)),
                   data, headers)
  ELSE PopulateCue(cueData, i, runningTime, currentScheduleItem, cueNumber,
                   outputData, data, headers)

\* the second half of the loop's body: the cue's row and the running time
PopulateCue(cueData, i, runningTime, currentScheduleItem, cueNumber, outputData, data, headers) ==
  PopulateFrom(cueData, i + 1,
               AdvanceTime(runningTime, DurationMins(cueData[i]).twice),
               currentScheduleItem, cueNumber + 1,
               Append(outputData, CueRow(cueNumber, runningTime, cueData[i])),
               data, headers)

\* outputData of populateProfessionalCueSheet
OutputData(cueData, scheduleSheet) ==
  PopulateFrom(cueData, 1, NullV, StrV(""), 1, << >>,
               GetDataRangeTyped(scheduleSheet),
               LowerHeaders(GetDataRangeTyped(scheduleSheet)))

StartsWith(s, prefix) == Len(s) >= Len(prefix) /\ SubSeq(s, 1, Len(prefix)) = prefix

\* the values of the sheet's rows from row 9 down: a row whose fourth value
\* is a text that starts with '---' is merged, which keeps its first value
SheetRows(outputData) ==
  [i \in DOMAIN outputData |->
     IF outputData[i][4].t = "string" /\ StartsWith(outputData[i][4].s, "---")
     THEN [c \in 1 .. 9 |-> IF c = 1 THEN outputData[i][1] ELSE StrV("")]
     ELSE outputData[i]]

\* the cue sheets the generator has made, by name; the content of one is its
\* title (A1), its info table (C3:G6), its header row (row 8) and its rows
\* from row 9 down
NoCueSheets == << >>

PutSheet(sheets, name, content) ==
  [n \in DOMAIN sheets \cup {name} |-> IF n = name THEN content ELSE sheets[n]]

\* `${eventInfo.eventName || 'Event'} - Cue Sheet`
SheetName(eventInfo) ==
  (IF eventInfo.eventName # "" THEN eventInfo.eventName ELSE "Event") \o " - Cue Sheet"

\* createPrintReadyHeader: the title and the info table; startDate is the
\* text toLocaleDateString() gives, empty when there is no start date, and
\* generatedTime the text of the time of the run
InfoData(eventInfo, generatedTime) ==
  << <<"Event Date:", IF eventInfo.startDate # "" THEN eventInfo.startDate ELSE "TBD",
       "", "Show Caller:", "">>,
     <<"Venue:", IF eventInfo.location # "" THEN eventInfo.location ELSE "TBD",
       "", "Stage Manager:", "">>,
     <<"Generated:", generatedTime, "", "Audio Lead (A1):", "">>,
     <<"Version:", "1.0", "", "Lighting (LD):", "">> >>

\* setupProfessionalCueSheetHeaders: the header row
CueSheetHeaders ==
  <<"#", "Time", "Dur.", "Cue Title", "Lead / Talent", "MC Script", "Lighting Cue",
    "Audio / Sound Cue", "Visuals / Screen Cue">>

\* the sheet once created or cleared and given its header
HeadedCueSheet(eventInfo, generatedTime) ==
  [title    |-> UpperOf(eventInfo.eventName) \o " - CUE SHEET",
   infoData |-> InfoData(eventInfo, generatedTime),
   headers  |-> CueSheetHeaders,
   rows     |-> << >>]

\* what a run of generateProfessionalCueSheet leaves: the sheets, the alert
\* shown, and the cue data and output rows it computed
Outcome(sheets, alert, message, cueData, outputData) ==
  [sheets |-> sheets, alert |-> alert, message |-> message,
   cueData |-> cueData, outputData |-> outputData]

\* the run from populateProfessionalCueSheet's write on
GenerateWritten(cueData, outputData, sheets, eventInfo, generatedTime) ==
  Outcome(PutSheet(sheets, SheetName(eventInfo),
                   [HeadedCueSheet(eventInfo, generatedTime)
                      EXCEPT !.rows = SheetRows(outputData)]),
          "Success",
          "Professional cue sheet created! Check the \"" \o SheetName(eventInfo)
            \o "\" tab.",
          cueData, outputData)

\* the run once there are cues: the sheet is created or cleared and headed;
\* populateProfessionalCueSheet raises when there is no 'Schedule' sheet
GeneratePopulated(cueData, scheduleSheet, sheets, eventInfo, generatedTime) ==
  IF ~scheduleSheet.exists
  THEN Outcome(PutSheet(sheets, SheetName(eventInfo),
                        HeadedCueSheet(eventInfo, generatedTime)),
               "Error", "Failed to generate cue sheet: \"Schedule\" sheet not found.",
               cueData, << >>)
  ELSE GenerateWritten(cueData, OutputData(cueData, scheduleSheet), sheets,
                       eventInfo, generatedTime)

\* the run once getCueBuilderData has returned or raised
GenerateWith(got, scheduleSheet, sheets, eventInfo, generatedTime) ==
  IF got.threw
  THEN Outcome(sheets, "Error",
               "Failed to generate cue sheet: \"Cue Builder\" sheet not found.",
               << >>, << >>)
  ELSE IF Len(got.cues) = 0
  THEN Outcome(sheets, "No Data",
               "The \"Cue Builder\" sheet is empty. Please add cues before generating the sheet.",
               << >>, << >>)
  ELSE GeneratePopulated(got.cues, scheduleSheet, sheets, eventInfo, generatedTime)

\* generateProfessionalCueSheet()
Generate(cueBuilderSheet, scheduleSheet, sheets, eventInfo, generatedTime) ==
  GenerateWith(GetCueBuilderData(cueBuilderSheet), scheduleSheet, sheets, eventInfo,
               generatedTime)

NoCueRun == [op |-> ""]

\* the state after a run with outcome r
Generated(r, eventInfo) ==
  /\ cueSheet' = r.sheets
  /\ cueRun' = [op |-> "generate", eventInfo |-> eventInfo, alert |-> r.alert,
                message |-> r.message, cueData |-> r.cueData,
                outputData |-> r.outputData]
  /\ UNCHANGED <<cueBuilder, schedule, rosterVars, formVars, taskVars>>

\* a run of generateProfessionalCueSheet, with the event information that
\* getEventInformation() returns and the time of the run
GenerateProfessionalCueSheet(eventInfo, generatedTime) ==
  Generated(Generate(cueBuilder, schedule, cueSheet, eventInfo, generatedTime),
            eventInfo)

(***************************************************************************)
(* Each part of the program is explored on its own: the sheets and runs of *)
(* the other parts are then at rest.                                       *)
(***************************************************************************)
RosterAtRest ==
  /\ peopleSheet = NoSheet
  /\ pc = [p \in Procs |-> "IDLE"]
  /\ frame = [p \in Procs |-> NoFrame(NoSheet)]
  /\ calls = 0
  /\ taskEdits = << >>

FormsAtRest ==
  /\ config = NoConfig
  /\ eventDesc = NoSheet
  /\ triggers = {}
  /\ formsCreated = 0
  /\ formRun = NoFormRun([config |-> NoConfig, triggers |-> {}, formsCreated |-> 0])

CueAtRest ==
  /\ cueBuilder = NoSheet
  /\ schedule = NoSheet
  /\ cueSheet = NoCueSheets
  /\ cueRun = NoCueRun

(***************************************************************************)
(* The sheets a behaviour may start from and the inputs it may be given.   *)
(***************************************************************************)
\* header rows: with only the required columns; with every known column and
\* one the operation does not know ('Notes'); in another order; and three
\* that lack a required column
Layouts ==
  { <<"Name", "Category", "Email">>,
    <<"Name", "Category", "Role/Position", "Status", "Email", "Phone",
      "Assigned Tasks", "Notes">>,
    <<"Email", "Notes", "Assigned Tasks", "Category", "Name">>,
    <<"Name", "Category", "Phone">>,
    <<"Name", "Email", "Assigned Tasks">>,
    <<"Category", "Email", "Status">> }

\* people already on the sheet, by column name
People ==
  { ("Name" :> "Ana") @@ ("Category" :> "Volunteer") @@ ("Status" :> "Potential")
      @@ ("Email" :> "ana@x.com") @@ ("Assigned Tasks" :> "Signage") @@ ("Notes" :> "vip"),
    ("Name" :> "Cy") @@ ("Category" :> "Speaker") @@ ("Phone" :> "777")
      @@ ("Assigned Tasks" :> "Setup, Teardown"),
    << >> }

RowOf(person, headers) ==
  [c \in 1 .. Len(headers) |->
     IF headers[c] \in DOMAIN person THEN person[headers[c]] ELSE ""]

SeqsUpTo(S, n) == UNION {[1 .. k -> S] : k \in 0 .. n}

\* the sheets with header row h and up to MaxInitRows people below it; the
\* last row of a sheet has content
SheetsWith(h) ==
  { [exists |-> TRUE,
     cells |-> <<h>> \o [i \in 1 .. Len(ps) |-> RowOf(ps[i], h)]] :
       ps \in {q \in SeqsUpTo(People, MaxInitRows) :
                 q = << >> \/ ~IsBlankRow(RowOf(q[Len(q)], h))} }

InitialSheets ==
  { NoSheet, [exists |-> TRUE, cells |-> << >>] }
  \cup UNION {SheetsWith(h) : h \in Layouts}

Contacts ==
  { [name |-> "Ana Lee", email |-> "ana@x.com", category |-> "Volunteer",
     role |-> "Lead", status |-> "Accepted"],
    [name |-> "Dee", email |-> "dee@x.com", phone |-> "555", category |-> "Participant",
     status |-> "Registered", role |-> "", notes |-> "Dietary: vegan"],
    [name |-> "ana", email |-> "ANA@X.COM", category |-> "Volunteer"],
    [name |-> "Eve", email |-> "", category |-> "Participant"],
    [email |-> ""],
    [name |-> "Fay", category |-> "Speaker"],
    << >> }

Events ==
  { [ok |-> FALSE, email |-> "", items |-> << >>],
    [ok |-> TRUE, email |-> "", items |-> << >>],
    [ok |-> TRUE, email |-> "ana@x.com",
     items |-> << Item("Full Name", Text("Ana Lee")), Item("Phone Number", Text("555")) >>],
    [ok |-> TRUE, email |-> "dee@x.com",
     items |-> << Item("Full Name", Text("Dee")),
                  Item("Preferred Role/Area", List(<<"Setup", "Teardown">>)),
                  Item("Session Title", Text("Keynote")),
                  Item("Accessibility Needs", Text("ramp")),
                  Item("Availability", List(<<"Sat", "Sun">>)),
                  Item("Speaker Bio", Text("")) >>] }

Init ==
  /\ peopleSheet \in InitialSheets
  /\ pc = [p \in Procs |-> "IDLE"]
  /\ frame = [p \in Procs |-> NoFrame(peopleSheet)]
  /\ calls = 0
  /\ taskEdits = << >>
  /\ FormsAtRest
  /\ CueAtRest

\* the steps of an invocation once entered
Step(p) ==
  \/ GetSheet(p)
  \/ LocateSchema(p)
  \/ ScanForMatch(p)
  \/ MergePreserveUnknown(p)
  \/ AppendNew(p)
  \/ WriteRow(p)

\* one invocation at a time (the host's single-threaded execution): every
\* call or submission runs to its end before the next is delivered
Next ==
  \/ \E d \in Contacts : Call(1, d)
  \/ \E h \in Handlers, e \in Events : Submit(1, h, e)
  \/ Step(1)

Spec == Init /\ [][Next]_vars

\* overlapping invocations: calls, for contacts that have an email address,
\* whose host calls interleave
OverlapContacts == {d \in Contacts : Has(d, "email") /\ d["email"] # ""}

OverlapNext ==
  \E p \in Procs :
    \/ \E d \in OverlapContacts : Call(p, d)
    \/ Step(p)

SpecOverlap == Init /\ [][OverlapNext]_vars

(***************************************************************************)
(* The task management, which owns the Assigned Tasks field: it changes    *)
(* the Assigned Tasks cell of a Record at any time, also between two host  *)
(* calls of a reconciling call.  taskEdits keeps, for each change, the     *)
(* row, the value the cell had, the new value, where the call of process 1 *)
(* was, and how many calls had been delivered.                             *)
(***************************************************************************)
MaxTaskEdits == 1

TaskValues == {"Stage", ""}

\* getRange(r, c).setValue(value)
SetValue(sheet, r, c, value) ==
  [sheet EXCEPT !.cells = TrimRows([sheet.cells EXCEPT ![r][c] = value])]

\* the column of the sheet named 'Assigned Tasks', 0 when it has none
AssignedTasksColumn(sheet) ==
  IF sheet.cells = << >> THEN 0 ELSE ColIndex(sheet.cells[1], "Assigned Tasks")

\* the task management sets the Assigned Tasks cell of the Record in row r
AssignTasks(r, value) ==
  /\ Len(taskEdits) < MaxTaskEdits
  /\ AssignedTasksColumn(peopleSheet) # 0
  /\ r \in 2 .. Len(peopleSheet.cells)
  /\ value # Cell(peopleSheet, r, AssignedTasksColumn(peopleSheet))
  /\ peopleSheet' = SetValue(peopleSheet, r, AssignedTasksColumn(peopleSheet), value)
  /\ taskEdits' = Append(taskEdits,
                         [row |-> r,
                          old |-> Cell(peopleSheet, r, AssignedTasksColumn(peopleSheet)),
                          value |-> value, during |-> pc[1], call |-> calls])
  /\ UNCHANGED <<pc, frame, calls, formVars, cueVars>>

\* the contact of the calls: one whose email a Record of the initial sheets
\* may have
TaskContacts == {d \in OverlapContacts : d["email"] = "ana@x.com"}

\* calls one at a time, with the task management's changes between their
\* host calls
TasksNext ==
  \/ \E d \in TaskContacts : Call(1, d)
  \/ Step(1)
  \/ \E r \in 2 .. MaxInitRows + MaxCalls + 1, value \in TaskValues : AssignTasks(r, value)

SpecTasks == Init /\ [][TasksNext]_vars

(***************************************************************************)
(* The call as one step: the sheet a call that nothing interleaves with    *)
(* leaves, as a function of the sheet it finds and the contact.  A call    *)
(* that returns early or raises leaves the sheet as it found it.           *)
(***************************************************************************)
AddOrUpdateResult(sheet, data) ==
  IF ~sheet.exists \/ GetLastColumn(sheet) = 0 THEN sheet
  ELSE LET headers == sheet.cells[1]
       IN IF MissingRequired(headers) THEN sheet
          ELSE LET idx == FindExistingRow(sheet.cells, ColIndex(headers, "Email"), data)
                   rowData == FormatRowData(headers, data)
               IN IF idx # -1
                  THEN SetValues(sheet, idx + 1,
                         ArrayValues(MergeRowData(rowData, headers, sheet, idx + 1)))
                  ELSE SetValues(sheet, GetLastRow(sheet) + 1,
                         ArrayValues(AppendRowData(rowData, headers)))

\* a direct call from entry to return
Reconcile(data) ==
  /\ Idle(1)
  /\ calls < MaxCalls
  /\ peopleSheet' = AddOrUpdateResult(peopleSheet, data)
  /\ frame' = [frame EXCEPT ![1] =
                 LET f == NewFrame(Direct, TRUE, data, peopleSheet, frame[1])
                 IN IF peopleSheet.exists /\ GetLastColumn(peopleSheet) = 0
                    THEN Raise(f) ELSE f]
  /\ pc' = [pc EXCEPT ![1] = "END"]
  /\ calls' = calls + 1
  /\ UNCHANGED <<formVars, cueVars, taskVars>>

AtomicNext == \E d \in Contacts : Reconcile(d)

\* under Spec, where a call runs step by step, the sheet at the end of a call
\* is the sheet AddOrUpdateResult gives
StepsGiveAtomicResult ==
  (pc[1] = "END" /\ frame[1].called) =>
    peopleSheet = AddOrUpdateResult(frame[1].before, frame[1].data)

SpecAtomic == Init /\ [][AtomicNext]_vars

(***************************************************************************)
(* The form and configuration functions: the sheets and triggers a         *)
(* behaviour may start from.                                               *)
(***************************************************************************)
DefaultConfig ==
  [exists |-> TRUE, cells |-> <<ConfigHeaders>> \o ConfigData, banded |-> TRUE]

\* Config sheets: missing; without content; as setupConfigSheet leaves it;
\* with two saved form URLs; with the 'speaker form' row deleted; with rows
\* added below the defaults; and one made by hand, four columns wide, with
\* keys in other letter case and a key twice
ConfigSheets ==
  { NoConfig,
    [exists |-> TRUE, cells |-> << >>, banded |-> FALSE],
    DefaultConfig,
    SaveFormUrl(SaveFormUrl(DefaultConfig, "registration form", PublishedUrl(0)),
                "speaker form", PublishedUrl(0)),
    [DefaultConfig EXCEPT
       !.cells = SelectSeq(DefaultConfig.cells, LAMBDA row : row[1] # "speaker form")],
    [DefaultConfig EXCEPT
       !.cells = DefaultConfig.cells
                   \o << <<"Sponsors", "Acme,Globex", "">>, <<"Notes", "", "draft">> >>],
    [exists |-> TRUE, banded |-> FALSE,
     cells |-> << <<"Key", "Value", "Body", "Comment">>,
                  <<"Registration Form", "", "", "keep">>,
                  <<"VOLUNTEER SIGN UP", "old", "", "">>,
                  <<"speaker form", "", "", "">>,
                  <<"speaker form", "old", "", "">> >>] }

\* Event Description sheets: missing; with an event name; without the
\* 'Event Name' row; with the row and no name
EventDescriptions ==
  { NoSheet,
    [exists |-> TRUE, cells |-> << <<"Event Name", "Gala">>, <<"Location", "Main Hall">> >>],
    [exists |-> TRUE, cells |-> << <<"Theme", "Gala">> >>],
    [exists |-> TRUE, cells |-> << <<"Event Name", "">>, <<"Location", "Main Hall">> >>] }

\* the project's triggers: none; the spreadsheet's open trigger; and with it
\* form-submit triggers left by earlier runs
TriggerSets ==
  { {},
    { [eventType |-> "ON_OPEN", handlerFunction |-> "onOpen", source |-> 0] },
    { [eventType |-> "ON_OPEN", handlerFunction |-> "onOpen", source |-> 0],
      FormTrigger("processRegistrationForm", 0),
      FormTrigger("onFormSubmit", 0) } }

\* what the host does during one run of the dialog: everything succeeds;
\* no trigger can be created; one form cannot be created; a trigger and a
\* form cannot; no form can
DialogOutcomes ==
  { AllOk,
    [fn \in CreateFunctions |-> "noTrigger"],
    [AllOk EXCEPT !["createRegistrationForm"] = "noForm"],
    [AllOk EXCEPT !["createVolunteerSignupForm"] = "noTrigger",
                  !["createSpeakerBioForm"] = "noForm"],
    [fn \in CreateFunctions |-> "noForm"] }

FormsInit ==
  /\ config \in ConfigSheets
  /\ eventDesc \in EventDescriptions
  /\ triggers \in TriggerSets
  /\ formsCreated = 0
  /\ formRun = NoFormRun(World)
  /\ RosterAtRest
  /\ CueAtRest

FormsNext ==
  \/ SetupConfigSheet
  \/ \E o \in HostOutcomes : CreateRegistrationForm(o)
  \/ \E o \in HostOutcomes : CreateVolunteerSignupForm(o)
  \/ \E o \in HostOutcomes : CreateSpeakerBioForm(o)
  \/ \E os \in DialogOutcomes : ShowFormGeneratorDialog(os)

SpecForms == FormsInit /\ [][FormsNext]_vars

(***************************************************************************)
(* The cue sheet generator's sheets and inputs.                            *)
(***************************************************************************)
MaxCueRows == 3

TypedHeader(h) == [c \in DOMAIN h |-> StrV(h[c])]

CueBuilderRow(item, title, duration) ==
  <<StrV(item), StrV(title), StrV("MC"), duration, StrV(""), StrV("Lights up"),
    StrV(""), StrV("Slide 1")>>

\* rows of a 'Cue Builder' sheet: durations of 5, 0.5 and 1.5 minutes, a
\* duration that is no number, one that begins with a number, a missing
\* one; a row without a schedule item and one without a cue title
CueRows ==
  {CueBuilderRow("Opening", "Walk-in", NumV(10)),
   CueBuilderRow("Opening", "Welcome", NumV(1)),
   CueBuilderRow("Opening", "Intro", StrV("abc")),
   CueBuilderRow("Keynote", "Talk", NumV(3)),
   CueBuilderRow("Keynote", "Panel", StrV("5 min")),
   CueBuilderRow("Break", "Music", StrV("")),
   CueBuilderRow("", "Orphan", NumV(10)),
   CueBuilderRow("Opening", "", NumV(10))}

CueBuilders ==
  {NoSheet, [exists |-> TRUE, cells |-> << >>]}
    \cup {[exists |-> TRUE, cells |-> <<TypedHeader(CueBuilderHeader)>> \o rows] :
            rows \in SeqsUpTo(CueRows, MaxCueRows)}
    \cup {[exists |-> TRUE,
           cells |-> <<TypedHeader(CueBuilderHeaderMoved),
                       <<StrV("Walk-in"), NumV(10), StrV("Opening"), StrV("MC"),
                         StrV(""), StrV(""), StrV(""), StrV("")>>,
                       <<StrV(""), NumV(4), StrV("Opening"), StrV(""),
                         StrV(""), StrV(""), StrV(""), StrV("")>>,
                       <<StrV("Talk"), NumV(3), StrV("Keynote"), StrV("Speaker"),
                         StrV(""), StrV(""), StrV(""), StrV("")>> >>],
          [exists |-> TRUE,
           cells |-> <<TypedHeader(CueBuilderHeaderNoTitle),
                       CueBuilderRow("Opening", "Walk-in", NumV(10))>>]}

\* 'Schedule' sheets: none; one with date start times for Opening (9:00) and
\* Keynote (9:58) and a text for Break; an empty one; and one with moved
\* headers, Opening twice and Keynote without a start time
Schedules ==
  {NoSheet,
   [exists |-> TRUE,
    cells |-> <<TypedHeader(ScheduleHeader),
                <<StrV("Opening"), DateV(540)>>,
                <<StrV("Keynote"), DateV(598)>>,
                <<StrV("Break"), StrV("10:30")>> >>],
   [exists |-> TRUE, cells |-> << >>],
   [exists |-> TRUE,
    cells |-> <<TypedHeader(ScheduleHeaderMoved),
                <<DateV(540), StrV("A"), StrV("Opening")>>,
                <<StrV(""), StrV("A"), StrV("Keynote")>>,
                <<DateV(555), StrV("B"), StrV("Opening")>> >>]}

\* what getEventInformation() returns
EventInfos ==
  {[eventName |-> "Gala", startDate |-> "3/14/2026", location |-> "Main Hall"],
   [eventName |-> "", startDate |-> "", location |-> ""]}

GeneratedTimes == {"3/1/2026, 9:00:00 AM"}

\* the cue sheets of the workbook at the start: none, or one of an earlier run
StaleCueSheet ==
  [HeadedCueSheet([eventName |-> "Gala", startDate |-> "", location |-> ""],
                  "2/1/2026, 8:00:00 AM")
     EXCEPT !.rows = <<SeparatorRow(StrV("Break"))>>]

InitialCueSheets ==
  {NoCueSheets, PutSheet(NoCueSheets, "Gala - Cue Sheet", StaleCueSheet)}

CueInit ==
  /\ RosterAtRest
  /\ FormsAtRest
  /\ cueBuilder \in CueBuilders
  /\ schedule \in Schedules
  /\ cueSheet \in InitialCueSheets
  /\ cueRun = NoCueRun

CueNext ==
  \E eventInfo \in EventInfos, generatedTime \in GeneratedTimes :
    GenerateProfessionalCueSheet(eventInfo, generatedTime)

SpecCue == CueInit /\ [][CueNext]_vars

(***************************************************************************)
(* The Roster as the claims speak of it: the Records are the rows below    *)
(* the header row, down to the last row with content.                      *)
(***************************************************************************)
Records(sheet) == 2 .. Len(sheet.cells)

NumRecords(sheet) == IF sheet.cells = << >> THEN 0 ELSE Len(sheet.cells) - 1

HeaderOf(sheet) == IF sheet.cells = << >> THEN << >> ELSE sheet.cells[1]

EmailOf(sheet, r) == Cell(sheet, r, ColIndex(HeaderOf(sheet), "Email"))

RecordsWithEmail(sheet, email) == {r \in Records(sheet) : EmailOf(sheet, r) = email}

UniqueEmails(sheet) ==
  ColIndex(HeaderOf(sheet), "Email") # 0 =>
    \A r1, r2 \in Records(sheet) : EmailOf(sheet, r1) = EmailOf(sheet, r2) => r1 = r2

\* the call of process p has returned or raised
Ended(p) == pc[p] = "END"

\* ... having written a row
Completed(p) == Ended(p) /\ frame[p].writes = 1

\* the Records that had the incoming email when the call was entered
MatchesBefore(p) ==
  {r \in Records(frame[p].before) :
     SameEmail(EmailOf(frame[p].before, r), frame[p].data)}

\* the call matched an existing Record and has written; the matched Record
\* is the first, in row order, with the incoming email
EndedMatched(p) == Completed(p) /\ MatchesBefore(p) # {}

MatchedRow(p) == CHOOSE r \in MatchesBefore(p) : \A q \in MatchesBefore(p) : r <= q

\* no Record had the incoming email and the call has written; the new Record
\* belongs in the row after the last row the call found
EndedAppended(p) == Completed(p) /\ MatchesBefore(p) = {}

NewRow(p) == Len(frame[p].before.cells) + 1

(***************************************************************************)
(* C1, as stated: from a Roster with at most one Record per Email value,   *)
(* no call, whatever the incoming contact, leaves two Records with the     *)
(* same Email value.  (Once unique, always unique.)                        *)
(***************************************************************************)
C1_UniqueEmailsAnyContact ==
  [][UniqueEmails(peopleSheet) => UniqueEmails(peopleSheet')]_vars

(***************************************************************************)
(* C1, amended: from a Roster with at most one Record per Email value, a   *)
(* call whose incoming contact has an email (a string, possibly empty)     *)
(* leaves at most one Record per Email value.                              *)
(***************************************************************************)
C1_UniqueEmailsKept ==
  [][\A p \in Procs :
       (pc[p] = "WRITE_ROW" /\ Has(frame[p].data, "email") /\ UniqueEmails(peopleSheet))
         => UniqueEmails(peopleSheet')]_vars

\* a second call with a new email has appended its Record to a Roster that
\* had, and still has, one Record per Email value
C1_Witness ==
  /\ EndedAppended(1)
  /\ calls = 2
  /\ Has(frame[1].data, "email")
  /\ NumRecords(peopleSheet) = NumRecords(frame[1].before) + 1
  /\ NumRecords(peopleSheet) >= 2
  /\ UniqueEmails(frame[1].before)
  /\ UniqueEmails(peopleSheet)

(***************************************************************************)
(* The columns the operation populates, and the contact property each is   *)
(* populated from.                                                         *)
(***************************************************************************)
KnownHeaders == {"Name", "Category", "Role/Position", "Status", "Email", "Phone"}

FieldOf(header) ==
  CASE header = "Name" -> "name"
    [] header = "Category" -> "category"
    [] header = "Role/Position" -> "role"
    [] header = "Status" -> "status"
    [] header = "Email" -> "email"
    [] header = "Phone" -> "phone"

TasksColumn(p) == ColIndex(frame[p].headers, "Assigned Tasks")

Columns(p) == 1 .. Len(frame[p].headers)

\* the values the call of p handed to setValues are not all the empty string
WroteContent(p) ==
  \E i \in DOMAIN frame[p].rowData : i >= 0 /\ frame[p].rowData[i] # ""

\* the known columns of row r hold the incoming contact's values
KnownFromContact(p, r) ==
  \A h \in KnownHeaders :
    ColIndex(frame[p].headers, h) # 0 =>
      Cell(peopleSheet, r, ColIndex(frame[p].headers, h))
        = OrEmpty(frame[p].data, FieldOf(h))

(***************************************************************************)
(* C2: a call that matched an existing Record, on a Roster with an         *)
(* 'Assigned Tasks' column, leaves that Record's Assigned Tasks as it was  *)
(* before the call.                                                        *)
(***************************************************************************)
C2_AssignedTasksPreserved ==
  \A p \in Procs :
    (EndedMatched(p) /\ TasksColumn(p) # 0) =>
      Cell(peopleSheet, MatchedRow(p), TasksColumn(p))
        = Cell(frame[p].before, MatchedRow(p), TasksColumn(p))

\* the preservation scenario: a Record with tasks is matched by a contact
\* with another name, and still has its tasks
C2_Witness ==
  /\ EndedMatched(1)
  /\ TasksColumn(1) # 0
  /\ Cell(frame[1].before, MatchedRow(1), TasksColumn(1)) = "Setup, Teardown"
  /\ Cell(peopleSheet, MatchedRow(1), TasksColumn(1)) = "Setup, Teardown"
  /\ Cell(frame[1].before, MatchedRow(1), ColIndex(frame[1].headers, "Name"))
       # Cell(peopleSheet, MatchedRow(1), ColIndex(frame[1].headers, "Name"))

(***************************************************************************)
(* C3: a call that matched an existing Record leaves every column of that  *)
(* Record whose header is not one of Name, Category, Role/Position,        *)
(* Status, Email, Phone as it was before the call.                         *)
(***************************************************************************)
C3_UnknownColumnsKept ==
  \A p \in Procs :
    EndedMatched(p) =>
      \A c \in Columns(p) :
        frame[p].headers[c] \notin KnownHeaders =>
          Cell(peopleSheet, MatchedRow(p), c)
            = Cell(frame[p].before, MatchedRow(p), c)

(***************************************************************************)
(* C4, as stated: a call that matched an existing Record leaves the number *)
(* of Records unchanged, and the Record's known columns hold the incoming  *)
(* contact's values ('' for an absent or empty one).                       *)
(***************************************************************************)
C4_MatchOverwritesKnown ==
  \A p \in Procs :
    EndedMatched(p) =>
      /\ NumRecords(peopleSheet) = NumRecords(frame[p].before)
      /\ KnownFromContact(p, MatchedRow(p))

(***************************************************************************)
(* C4, amended: the same, for a call whose written row holds at least one  *)
(* non-empty value.                                                        *)
(***************************************************************************)
C4_MatchOverwritesKnownContent ==
  \A p \in Procs :
    (EndedMatched(p) /\ WroteContent(p)) =>
      /\ NumRecords(peopleSheet) = NumRecords(frame[p].before)
      /\ KnownFromContact(p, MatchedRow(p))

\* the end-to-end scenario of the spec: Ana becomes Ana Lee, Lead, Accepted;
\* the absent phone is stored as ''
C4_Witness ==
  /\ EndedMatched(1)
  /\ frame[1].data = [name |-> "Ana Lee", email |-> "ana@x.com", category |-> "Volunteer",
                      role |-> "Lead", status |-> "Accepted"]
  /\ Len(frame[1].headers) = 8
  /\ NumRecords(peopleSheet) = 1
  /\ frame[1].before.cells[2] = <<"Ana", "Volunteer", "", "Potential", "ana@x.com", "", "Signage", "vip">>
  /\ SubSeq(peopleSheet.cells[2], 1, 7)
       = <<"Ana Lee", "Volunteer", "Lead", "Accepted", "ana@x.com", "", "Signage">>

(***************************************************************************)
(* C5, as stated: a call that found no Record with the incoming email adds *)
(* exactly one Record, in the row after the last existing row, with the    *)
(* known columns from the contact and every other column (Assigned Tasks   *)
(* included) empty; the rows that existed are unchanged.                   *)
(***************************************************************************)
AppendedAsClaimed(p) ==
  /\ NumRecords(peopleSheet) = NumRecords(frame[p].before) + 1
  /\ frame[p].targetRow = NewRow(p)
  /\ KnownFromContact(p, NewRow(p))
  /\ \A c \in Columns(p) :
       frame[p].headers[c] \notin KnownHeaders =>
         Cell(peopleSheet, NewRow(p), c) = ""
  /\ \A r \in 1 .. Len(frame[p].before.cells) :
       peopleSheet.cells[r] = frame[p].before.cells[r]

C5_AppendAddsOneRecord ==
  \A p \in Procs : EndedAppended(p) => AppendedAsClaimed(p)

(***************************************************************************)
(* C5, amended: the same, for a call whose written row holds at least one  *)
(* non-empty value.                                                        *)
(***************************************************************************)
C5_AppendAddsOneRecordContent ==
  \A p \in Procs : (EndedAppended(p) /\ WroteContent(p)) => AppendedAsClaimed(p)

\* Dee is appended below Ana on the eight-column sheet
C5_Witness ==
  /\ EndedAppended(1)
  /\ Len(frame[1].headers) = 8
  /\ NumRecords(frame[1].before) = 1
  /\ NumRecords(peopleSheet) = 2
  /\ peopleSheet.cells[3]
       = <<"Dee", "Participant", "", "Registered", "dee@x.com", "555", "", "">>

(***************************************************************************)
(* C6, as stated: for a contact with a non-empty email, a second call with *)
(* the same contact right after the first leaves the Roster exactly as the *)
(* first call left it, with one Record for that email.                     *)
(***************************************************************************)
SecondOfTwo(p) ==
  /\ Ended(p)
  /\ frame[p].called
  /\ frame[p].prevData = <<frame[p].data>>
  /\ Has(frame[p].data, "email")
  /\ frame[p].data["email"] # ""

C6_TwiceIsOnce ==
  \A p \in Procs :
    SecondOfTwo(p) =>
      /\ peopleSheet = frame[p].before
      /\ Completed(p) =>
           Cardinality(RecordsWithEmail(peopleSheet, frame[p].data["email"])) = 1

(***************************************************************************)
(* C6, amended: ... leaves the Roster exactly as the first call left it;   *)
(* it holds a Record for that email, and exactly one if the Roster held at *)
(* most one Record with that email before the first call.                  *)
(***************************************************************************)
C6_TwiceIsOnceNoNewDuplicate ==
  \A p \in Procs :
    SecondOfTwo(p) =>
      /\ peopleSheet = frame[p].before
      /\ Completed(p) =>
           LET e == frame[p].data["email"]
           IN /\ RecordsWithEmail(peopleSheet, e) # {}
              /\ Cardinality(RecordsWithEmail(frame[p].prevBefore, e)) <= 1
                   => Cardinality(RecordsWithEmail(peopleSheet, e)) = 1

\* Dee was appended by the first call and matched by the second
C6_Witness ==
  /\ SecondOfTwo(1)
  /\ Completed(1)
  /\ frame[1].data["email"] = "dee@x.com"
  /\ RecordsWithEmail(frame[1].prevBefore, "dee@x.com") = {}
  /\ NumRecords(frame[1].prevBefore) = 1
  /\ NumRecords(peopleSheet) = 2
  /\ peopleSheet = frame[1].before

(***************************************************************************)
(* C7: when the People sheet does not exist, or its header row lacks one   *)
(* of Name, Category, Email, a call of addOrUpdatePersonInPeopleSheet      *)
(* returns after logging, without a write and without an exception: the    *)
(* Roster is as before.                                                    *)
(***************************************************************************)
NoSchema(sheet) ==
  \/ ~sheet.exists
  \/ \E h \in RequiredColumns : \A c \in DOMAIN HeaderOf(sheet) : HeaderOf(sheet)[c] # h

C7_AbortsLoggedNoWriteNoException ==
  \A p \in Procs :
    (Ended(p) /\ frame[p].called /\ NoSchema(frame[p].before)) =>
      /\ peopleSheet = frame[p].before
      /\ frame[p].writes = 0
      /\ ~frame[p].threw
      /\ frame[p].logged \in {"People sheet not found",
                              "Required columns not found in People sheet"}

(***************************************************************************)
(* C8: a form-submit handler never lets an exception out, whatever the     *)
(* event; a submission that raised has left the Roster as it was; and a    *)
(* submission is processed normally whatever happened to the one before    *)
(* it: when the event is well-formed and the sheet has the required        *)
(* columns it makes its one write.                                         *)
(***************************************************************************)
C8_HandlersSuppressExceptions ==
  \A p \in Procs :
    (Ended(p) /\ frame[p].caller \in Handlers) =>
      /\ ~frame[p].escaped
      /\ frame[p].threw =>
           /\ peopleSheet = frame[p].before
           /\ frame[p].writes = 0
           /\ frame[p].logged = HandlerErrorLog(frame[p].caller)
      /\ (frame[p].called /\ ~NoSchema(frame[p].before)) =>
           /\ ~frame[p].threw
           /\ frame[p].writes = 1

\* a malformed submission was caught, and the submission after it has added
\* its Record
C8_Witness ==
  /\ Ended(1)
  /\ frame[1].caller \in Handlers
  /\ frame[1].prevThrew
  /\ frame[1].prevData = << >>
  /\ frame[1].prevBefore = frame[1].before
  /\ frame[1].writes = 1
  /\ NumRecords(peopleSheet) = NumRecords(frame[1].before) + 1

(***************************************************************************)
(* C9: every call goes START, LOCATE_SCHEMA, SCAN_FOR_MATCH, MERGE or      *)
(* APPEND, WRITE_ROW, END, leaving early only from START (no sheet) or     *)
(* LOCATE_SCHEMA (no schema); the sheet changes only in the step from      *)
(* WRITE_ROW to END, hence after the schema check; a call that ends has    *)
(* made exactly one write if the sheet and the required columns exist and  *)
(* none otherwise; and every row but the one written, the header row       *)
(* included, is as it was when the call began.                             *)
(***************************************************************************)
CallEdges ==
  { <<"IDLE", "START">>, <<"END", "START">>, <<"IDLE", "END">>, <<"END", "END">>,
    <<"START", "LOCATE_SCHEMA">>, <<"START", "END">>,
    <<"LOCATE_SCHEMA", "SCAN_FOR_MATCH">>, <<"LOCATE_SCHEMA", "END">>,
    <<"SCAN_FOR_MATCH", "MERGE">>, <<"SCAN_FOR_MATCH", "APPEND">>,
    <<"MERGE", "WRITE_ROW">>, <<"APPEND", "WRITE_ROW">>, <<"WRITE_ROW", "END">> }

\* rows of sheet a and sheet b other than row w hold the same cells
SameButRow(a, b, w) ==
  \A r \in 1 .. Len(a.cells) + Len(b.cells) + 1 :
    r # w => \A c \in 1 .. GetLastColumn(a) + GetLastColumn(b) : Cell(a, r, c) = Cell(b, r, c)

C9_OneWriteAfterSchemaCheck ==
  [][\A p \in Procs :
       /\ pc'[p] # pc[p] => <<pc[p], pc'[p]>> \in CallEdges
       /\ (pc[p] \in {"IDLE", "END"} /\ pc'[p] = "END" /\ frame'[p] # frame[p])
            => ~frame'[p].called
       /\ peopleSheet' # peopleSheet =>
            \E q \in Procs : /\ pc[q] = "WRITE_ROW" /\ pc'[q] = "END"
                             /\ ~NoSchema(peopleSheet)
                             /\ frame'[q].writes = frame[q].writes + 1
       /\ (pc'[p] = "END" /\ frame'[p].called) =>
            /\ frame'[p].writes = IF NoSchema(frame'[p].before) THEN 0 ELSE 1
            /\ SameButRow(peopleSheet', frame'[p].before,
                          IF frame'[p].writes = 1 THEN frame'[p].targetRow ELSE 0)
    ]_vars

\* a call has matched the second of two Records and written it; the header
\* row and the first Record are untouched
C9_Witness ==
  /\ Completed(1)
  /\ frame[1].logged = "Updated existing person"
  /\ frame[1].targetRow = 3
  /\ peopleSheet.cells[3] # frame[1].before.cells[3]
  /\ peopleSheet.cells[1] = frame[1].before.cells[1]
  /\ peopleSheet.cells[2] = frame[1].before.cells[2]

(***************************************************************************)
(* C10: two overlapping calls for the same email, which no Record has,     *)
(* can both take the no-match branch and leave two Records with that       *)
(* email.  The state is reached (C10_Witness), and this is why: the result *)
(* of the scan is not looked at again before the write, so the write of a  *)
(* call that took the no-match branch goes to a row below the rows the     *)
(* call found and, when that row is the one after the last row, adds a     *)
(* Record with the email whether or not another call has added one with    *)
(* the same email since the scan.                                          *)
(***************************************************************************)
C10_NoMatchWriteAddsRecord ==
  [][\A p \in Procs :
       (pc[p] = "WRITE_ROW" /\ pc'[p] = "END" /\ frame[p].existingRowIndex = -1) =>
         LET e == frame[p].data["email"]
         IN /\ frame[p].targetRow > Len(frame[p].before.cells)
            /\ frame[p].targetRow = Len(peopleSheet.cells) + 1 =>
                 Cardinality(RecordsWithEmail(peopleSheet', e))
                   = Cardinality(RecordsWithEmail(peopleSheet, e)) + 1
    ]_vars

\* both calls for dee@x.com began when no Record had that email, both took
\* the no-match branch, and the Roster has two Records with it
C10_Witness ==
  /\ Ended(1) /\ Ended(2)
  /\ frame[1].data["email"] = "dee@x.com" /\ frame[2].data["email"] = "dee@x.com"
  /\ RecordsWithEmail(frame[1].before, "dee@x.com") = {}
  /\ RecordsWithEmail(frame[2].before, "dee@x.com") = {}
  /\ frame[1].existingRowIndex = -1 /\ frame[2].existingRowIndex = -1
  /\ frame[1].logged = "Added new person" /\ frame[2].logged = "Added new person"
  /\ Cardinality(RecordsWithEmail(peopleSheet, "dee@x.com")) = 2
  /\ NumRecords(peopleSheet) = NumRecords(frame[1].before) + 2

(***************************************************************************)
(* C11, as stated: on any Roster with the required columns, a call whose   *)
(* incoming email is empty (the empty string, or no email at all) takes    *)
(* the no-match branch and appends a row, so the Roster has one Record     *)
(* more after the call, and two more after two such calls in a row.        *)
(***************************************************************************)
EmptyEmailCall(p) ==
  /\ Ended(p)
  /\ frame[p].called
  /\ ~NoSchema(frame[p].before)
  /\ frame[p].before.cells # << >>
  /\ OrEmpty(frame[p].data, "email") = ""

\* the call before the call of p was an empty-email call on a usable sheet
AfterEmptyEmailCall(p) ==
  /\ frame[p].prevData # << >>
  /\ OrEmpty(frame[p].prevData[1], "email") = ""
  /\ ~NoSchema(frame[p].prevBefore)

AppendedOneRow(p) ==
  /\ frame[p].existingRowIndex = -1
  /\ frame[p].targetRow = NewRow(p)
  /\ NumRecords(peopleSheet) = NumRecords(frame[p].before) + 1

C11_EmptyEmailAlwaysAppends ==
  \A p \in Procs :
    EmptyEmailCall(p) =>
      /\ AppendedOneRow(p)
      /\ AfterEmptyEmailCall(p) =>
           NumRecords(peopleSheet) = NumRecords(frame[p].prevBefore) + 2

(***************************************************************************)
(* C11, amended: a call whose contact has no email property takes the     *)
(* no-match branch, and appends a Record with an empty Email when the row  *)
(* it writes holds a non-empty value; so do two such calls in a row.  A    *)
(* call whose email is the empty string appends only when no Record has    *)
(* an empty Email cell: otherwise it matches the first such Record and     *)
(* the number of Records does not grow.                                    *)
(***************************************************************************)
BlankKeyedBefore(p) == RecordsWithEmail(frame[p].before, "")

C11_NoEmailPropertyAppends ==
  \A p \in Procs :
    (EmptyEmailCall(p) /\ WroteContent(p)) =>
      IF Has(frame[p].data, "email") /\ BlankKeyedBefore(p) # {}
      THEN /\ frame[p].existingRowIndex + 1 = MatchedRow(p)
           /\ NumRecords(peopleSheet) = NumRecords(frame[p].before)
      ELSE /\ AppendedOneRow(p)
           /\ EmailOf(peopleSheet, NewRow(p)) = ""
           /\ (AfterEmptyEmailCall(p) /\ ~Has(frame[p].prevData[1], "email")
                 /\ frame[p].prevData[1] # << >>)
                => NumRecords(peopleSheet) = NumRecords(frame[p].prevBefore) + 2

\* two calls in a row for Fay, who has no email, have added two Records
\* with an empty Email
C11_Witness ==
  /\ EmptyEmailCall(1)
  /\ frame[1].data = [name |-> "Fay", category |-> "Speaker"]
  /\ frame[1].prevData = <<frame[1].data>>
  /\ NumRecords(frame[1].prevBefore) = 1
  /\ NumRecords(peopleSheet) = 3
  /\ EmailOf(peopleSheet, 3) = "" /\ EmailOf(peopleSheet, 4) = ""

(***************************************************************************)
(* C12: matching is exact equality on the Email cell.  A call that writes  *)
(* took the match branch exactly when some Record's Email cell is          *)
(* identical to the incoming email; an Email that differs from it, if only *)
(* in letter case, is another identity, and the call adds a Record below   *)
(* the others; when several Records have the incoming email the row        *)
(* written is the first of them in row order, and every other row is as it *)
(* was.                                                                    *)
(***************************************************************************)
ExactMatches(p) ==
  {r \in Records(frame[p].before) :
     /\ Has(frame[p].data, "email")
     /\ EmailOf(frame[p].before, r) = frame[p].data["email"]}

C12_ExactFirstMatch ==
  \A p \in Procs :
    Completed(p) =>
      /\ frame[p].existingRowIndex # -1 <=> ExactMatches(p) # {}
      /\ ExactMatches(p) # {} =>
           /\ frame[p].logged = "Updated existing person"
           /\ frame[p].targetRow \in ExactMatches(p)
           /\ \A r \in ExactMatches(p) : frame[p].targetRow <= r
      /\ ExactMatches(p) = {} =>
           /\ frame[p].logged = "Added new person"
           /\ frame[p].targetRow = NewRow(p)
      /\ SameButRow(peopleSheet, frame[p].before, frame[p].targetRow)

\* of two Records with ana@x.com the first call, for ana@x.com, updated the
\* first and left the second; the second call, for ANA@X.COM, matched
\* neither and added a Record
C12_Witness ==
  /\ Completed(1)
  /\ OrEmpty(frame[1].data, "email") = "ANA@X.COM"
  /\ frame[1].prevData # << >>
  /\ OrEmpty(frame[1].prevData[1], "email") = "ana@x.com"
  /\ RecordsWithEmail(frame[1].prevBefore, "ana@x.com") = {2, 3}
  /\ RecordsWithEmail(peopleSheet, "ana@x.com") = {2, 3}
  /\ RecordsWithEmail(peopleSheet, "ANA@X.COM") = {4}
  /\ peopleSheet.cells[2] # frame[1].prevBefore.cells[2]
  /\ peopleSheet.cells[3] = frame[1].prevBefore.cells[3]

(***************************************************************************)
(* Permutations of the columns of a sheet: row r of the permuted sheet has *)
(* in column c what the sheet has in column pi[c].                         *)
(***************************************************************************)
\* widths up to which every permutation of the columns is taken; above it,
\* the exchanges of two columns and the reversal
MaxPermutedColumns == 5

AllPermutations(n) ==
  {pi \in [1 .. n -> 1 .. n] : \A i, j \in 1 .. n : pi[i] = pi[j] => i = j}

Exchanges(n) ==
  { [c \in 1 .. n |-> IF c = i THEN j ELSE IF c = j THEN i ELSE c] :
      i \in 1 .. n, j \in 1 .. n }
  \cup { [c \in 1 .. n |-> n + 1 - c] }

Widths == {0} \cup {Len(h) : h \in Layouts}

ColumnPermutations ==
  [n \in Widths |-> IF n <= MaxPermutedColumns THEN AllPermutations(n) ELSE Exchanges(n)]

PermuteColumns(sheet, pi) ==
  [sheet EXCEPT !.cells =
     [r \in 1 .. Len(sheet.cells) |-> [c \in 1 .. Len(pi) |-> sheet.cells[r][pi[c]]]]]

(***************************************************************************)
(* C13: the result of addOrUpdatePersonInPeopleSheet does not depend on    *)
(* the order of the columns: for every permutation of the columns of the   *)
(* sheet the call found (header and data together), the call on the        *)
(* permuted sheet gives the permuted result of the call; the optional      *)
(* columns may be absent.                                                  *)
(***************************************************************************)
C13_ColumnOrderIrrelevant ==
  \A p \in Procs :
    (Ended(p) /\ frame[p].called) =>
      \A pi \in ColumnPermutations[GetLastColumn(frame[p].before)] :
        AddOrUpdateResult(PermuteColumns(frame[p].before, pi), frame[p].data)
          = PermuteColumns(peopleSheet, pi)

\* Ana is matched on the eight-column sheet; with Email and Notes exchanged
\* the sheets differ from the unpermuted ones and the call commutes
C13_Witness ==
  LET pi == <<1, 2, 3, 4, 8, 6, 7, 5>>
  IN /\ Ended(1) /\ frame[1].called
     /\ GetLastColumn(frame[1].before) = 8
     /\ OrEmpty(frame[1].data, "email") = "ana@x.com"
     /\ RecordsWithEmail(frame[1].before, "ana@x.com") # {}
     /\ peopleSheet # frame[1].before
     /\ pi \in ColumnPermutations[8]
     /\ PermuteColumns(peopleSheet, pi) # peopleSheet
     /\ AddOrUpdateResult(PermuteColumns(frame[1].before, pi), frame[1].data)
          = PermuteColumns(peopleSheet, pi)

(***************************************************************************)
(* C14, as stated: over any sequence of calls that do not overlap no       *)
(* Record is ever removed: a call never leaves fewer Records than it       *)
(* found, a call that matched leaves as many, and a call that did not      *)
(* match leaves one more.                                                  *)
(***************************************************************************)
CountAsClaimed(p) ==
  IF ExactMatches(p) # {}
  THEN NumRecords(peopleSheet) = NumRecords(frame[p].before)
  ELSE NumRecords(peopleSheet) = NumRecords(frame[p].before) + 1

C14_RecordsNeverRemoved ==
  \A p \in Procs :
    (Ended(p) /\ frame[p].called) =>
      /\ NumRecords(peopleSheet) >= NumRecords(frame[p].before)
      /\ Completed(p) => CountAsClaimed(p)

(***************************************************************************)
(* C14, amended: the same, over calls whose written row holds at least one *)
(* non-empty value.  A call that writes a row of empty strings adds no     *)
(* Record when it did not match, and empties the Record it matched, which  *)
(* is no longer a row of the Roster when it was the last.                  *)
(***************************************************************************)
C14_RecordsNeverRemovedContent ==
  \A p \in Procs :
    (Ended(p) /\ frame[p].called) =>
      /\ ~Completed(p) => peopleSheet = frame[p].before
      /\ (Completed(p) /\ WroteContent(p)) => CountAsClaimed(p)
      /\ (Completed(p) /\ ~WroteContent(p)) =>
           /\ NumRecords(peopleSheet) <= NumRecords(frame[p].before)
           /\ ExactMatches(p) = {} => peopleSheet = frame[p].before
           /\ ExactMatches(p) # {} => IsBlankRow(
                [c \in Columns(p) |-> Cell(peopleSheet, frame[p].targetRow, c)])

\* Dee was added to a Roster of one Record, then Ana was matched: one
\* Record, then two, then two
C14_Witness ==
  /\ Completed(1) /\ WroteContent(1)
  /\ frame[1].prevData # << >>
  /\ OrEmpty(frame[1].prevData[1], "email") = "dee@x.com"
  /\ OrEmpty(frame[1].data, "email") = "ana@x.com"
  /\ ExactMatches(1) # {}
  /\ NumRecords(frame[1].prevBefore) = 1
  /\ NumRecords(frame[1].before) = 2
  /\ NumRecords(peopleSheet) = 2
  /\ peopleSheet # frame[1].before

(***************************************************************************)
(* C15: after setupConfigSheet the Config sheet holds exactly the header   *)
(* row followed by the 20 default entries, whatever it held before (no     *)
(* sheet, no content, entries edited by the user, saved form URLs), and    *)
(* running it again gives the same content.                                *)
(***************************************************************************)
C15_SetupGivesDefaults ==
  formRun.op = "setupConfigSheet" =>
    /\ config.exists
    /\ Len(ConfigData) = 20
    /\ config.cells = <<ConfigHeaders>> \o ConfigData
    /\ SetupConfig(config).config.cells = config.cells
    /\ formRun.prevOp = "setupConfigSheet" => config.cells = formRun.before.config.cells

\* createRegistrationForm saved its URL in a Config sheet that had rows
\* below the defaults; setupConfigSheet then left the defaults only
C15_Witness ==
  /\ formRun.op = "setupConfigSheet"
  /\ formRun.prevOp = "createRegistrationForm"
  /\ Len(formRun.before.config.cells) = 23
  /\ formRun.before.config.cells[16] =
       <<"registration form", HyperlinkFormula(PublishedUrl(1), "registration form"), "">>
  /\ Len(config.cells) = 21
  /\ config.cells[16] = <<"registration form", "", "">>

(***************************************************************************)
(* C16, as stated: a create function never raises; it returns null when    *)
(* the event name is missing or the form cannot be created, and the        *)
(* form's published URL otherwise, also when the trigger cannot be         *)
(* created; and whenever it returns the URL, the URL is saved in Config.   *)
(***************************************************************************)
CreateRun == formRun.op \in CreateFunctions

CreateFailed ==
  GetEventName(eventDesc) = Null \/ formRun.outcomes[formRun.op] = "noForm"

\* the rows of the Config sheet the run found that have the key of its form
KeyRowsBefore ==
  IF ~formRun.before.config.exists THEN {}
  ELSE {i \in DOMAIN formRun.before.config.cells :
          KeyRow(formRun.before.config.cells[i], KeyOf[formRun.op])}

\* column B of some row with the form's key holds the link to the new form
UrlSaved ==
  \E i \in DOMAIN config.cells :
    /\ KeyRow(config.cells[i], KeyOf[formRun.op])
    /\ config.cells[i][2] = HyperlinkFormula(PublishedUrl(formsCreated), KeyOf[formRun.op])

ReturnsAsClaimed ==
  /\ ~formRun.raised
  /\ formRun.results = <<IF CreateFailed THEN Null ELSE PublishedUrl(formsCreated)>>
  /\ CreateFailed => World = formRun.before
  /\ ~CreateFailed =>
       /\ formsCreated = formRun.before.formsCreated + 1
       /\ triggers = IF formRun.outcomes[formRun.op] = "noTrigger"
                     THEN formRun.before.triggers
                     ELSE formRun.before.triggers
                            \cup {FormTrigger(HandlerOf[formRun.op], formsCreated)}

C16_UrlReturnedAndSaved ==
  CreateRun => (ReturnsAsClaimed /\ (~CreateFailed => UrlSaved))

(***************************************************************************)
(* C16, amended: ... and when it returns the URL, the URL is saved in      *)
(* column B of the first row of the Config sheet whose key is the form's   *)
(* key (letter case ignored), every other cell being as before; when there *)
(* is no Config sheet or no such row the URL is returned all the same and  *)
(* the Config sheet is left as it was.                                     *)
(***************************************************************************)
C16_UrlReturnedSavedIfKeyed ==
  CreateRun =>
    /\ ReturnsAsClaimed
    /\ (~CreateFailed /\ KeyRowsBefore = {}) => config = formRun.before.config
    /\ (~CreateFailed /\ KeyRowsBefore # {}) =>
         /\ UrlSaved
         /\ \A i \in DOMAIN config.cells : \A c \in DOMAIN config.cells[i] :
              config.cells[i][c] =
                IF c = 2 /\ i \in KeyRowsBefore /\ \A j \in KeyRowsBefore : i <= j
                THEN HyperlinkFormula(PublishedUrl(formsCreated), KeyOf[formRun.op])
                ELSE Cell(formRun.before.config, i, c)

\* the trigger of the volunteer form could not be created: the URL is
\* returned and saved, in the row keyed 'VOLUNTEER SIGN UP', and the triggers
\* are as before
C16_Witness ==
  /\ formRun.op = "createVolunteerSignupForm"
  /\ formRun.outcomes["createVolunteerSignupForm"] = "noTrigger"
  /\ formRun.results = <<PublishedUrl(formsCreated)>>
  /\ triggers = formRun.before.triggers
  /\ Len(formRun.before.config.cells) = 5
  /\ formRun.before.config.cells[3] = <<"VOLUNTEER SIGN UP", "old", "", "">>
  /\ config.cells[3] =
       <<"VOLUNTEER SIGN UP", HyperlinkFormula(PublishedUrl(formsCreated), "volunteer sign up"),
         "", "">>

(***************************************************************************)
(* C17: after a run of showFormGeneratorDialog with an event name present  *)
(* the project's form-submit triggers are only those created during that   *)
(* run, at most one for each of processRegistrationForm,                   *)
(* processVolunteerForm and processSpeakerForm, hence at most three.       *)
(***************************************************************************)
FormSubmitTriggers(ts) == {t \in ts : t.eventType = OnFormSubmit}

C17_OnlyThisRunsTriggers ==
  (formRun.op = "showFormGeneratorDialog" /\ GetEventName(eventDesc) # Null) =>
    /\ FormSubmitTriggers(triggers) \cap formRun.before.triggers = {}
    /\ \A t \in FormSubmitTriggers(triggers) :
         /\ t.handlerFunction \in Handlers
         /\ t.source > formRun.before.formsCreated
    /\ \A h \in Handlers :
         Cardinality({t \in FormSubmitTriggers(triggers) : t.handlerFunction = h}) <= 1
    /\ Cardinality(FormSubmitTriggers(triggers)) <= 3

(***************************************************************************)
(* Claims about the cue sheet generator.                                   *)
(***************************************************************************)
\* a run of the generator that wrote the cue rows
CueRunWritten == cueRun.op = "generate" /\ cueRun.alert = "Success"

\* the place in outputData of the row of the i-th cue
OutputRowOf(i) ==
  CHOOSE r \in DOMAIN cueRun.outputData : cueRun.outputData[r][1] = NumV(2 * i)

\* the first cue of the maximal run of cues with one schedule item that
\* cue i is in
RunFirst(i) ==
  CHOOSE j \in 1 .. i :
    /\ \A k \in j .. i : cueRun.cueData[k].scheduleItem = cueRun.cueData[i].scheduleItem
    /\ j > 1 => cueRun.cueData[j - 1].scheduleItem # cueRun.cueData[i].scheduleItem

\* twice the sum of the durations in minutes of cues j .. i
RECURSIVE TwiceDurations(_, _)
TwiceDurations(j, i) ==
  IF j > i THEN 0 ELSE DurationMins(cueRun.cueData[j]).twice + TwiceDurations(j + 1, i)

\* the Schedule start time of the schedule item of cue i
StartOfCue(i) ==
  ScheduleStart(GetDataRangeTyped(schedule), LowerHeaders(GetDataRangeTyped(schedule)),
                cueRun.cueData[i].scheduleItem)

\* C18: in the rows populateProfessionalCueSheet puts out, the time of each
\* cue of a run of cues with one schedule item whose Schedule start time is
\* a date is that start time plus the sum of the durations in minutes of the
\* cues before it in the run; when the start time is no date, the time is
\* empty
C18_TimeIsStartPlusDurations ==
  CueRunWritten =>
    \A i \in DOMAIN cueRun.cueData :
      IF StartOfCue(i).t = "date"
      THEN /\ cueRun.outputData[OutputRowOf(i)][2].t = "date"
           /\ 2 * cueRun.outputData[OutputRowOf(i)][2].minutes
                = 2 * StartOfCue(i).minutes + TwiceDurations(RunFirst(i), i - 1)
      ELSE cueRun.outputData[OutputRowOf(i)][2] = NullV

\* the cues whose schedule item differs from that of the cue before them,
\* the first cue among them
SectionChanges ==
  {i \in DOMAIN cueRun.cueData :
     i = 1 \/ cueRun.cueData[i].scheduleItem # cueRun.cueData[i - 1].scheduleItem}

\* the place the claim gives the row of cue i: after the rows of the cues
\* before it and one separator for each section change up to it
RowPlace(i) == i + Cardinality({j \in SectionChanges : j <= i})

\* C19: populateProfessionalCueSheet numbers the cue rows 1, 2, ..., n in
\* input order without restarting at sections, and puts a separator row,
\* which has no number, exactly before each cue whose schedule item differs
\* from that of the cue before it and before the first cue: n cue rows and
\* one separator for each section change
C19_NumberedRowsAndSeparators ==
  CueRunWritten =>
    /\ Len(cueRun.outputData) = Len(cueRun.cueData) + Cardinality(SectionChanges)
    /\ \A i \in DOMAIN cueRun.cueData :
         /\ cueRun.outputData[RowPlace(i)][1] = NumV(2 * i)
         /\ cueRun.outputData[RowPlace(i)][4] = cueRun.cueData[i].cueTitle
    /\ \A i \in SectionChanges :
         /\ cueRun.outputData[RowPlace(i) - 1][1] = StrV("")
         /\ cueRun.outputData[RowPlace(i) - 1][4].s
              = "--- " \o ToUpperCase(cueRun.cueData[i].scheduleItem.s) \o " ---"

\* three cues in two sections, the second section with two cues
C19_Witness ==
  /\ CueRunWritten
  /\ Len(cueRun.cueData) = 3
  /\ SectionChanges = {1, 2}
  /\ Len(cueRun.outputData) = 5
  /\ cueRun.outputData[5][1] = NumV(6)

\* the rows below the header row that have a schedule item and a cue title
\* that are not empty, by their row numbers; headers are the header row's
\* texts in lower case
RowsWithItemAndTitle(cells, headers) ==
  {r \in 2 .. Len(cells) :
     /\ Field(cells[r], headers, "schedule item").t = "string"
     /\ Field(cells[r], headers, "schedule item").s # ""
     /\ Field(cells[r], headers, "cue title").t = "string"
     /\ Field(cells[r], headers, "cue title").s # ""}

CuesAreRows(cues, cells, headers) ==
  /\ {cues[i].originalRow : i \in DOMAIN cues} = RowsWithItemAndTitle(cells, headers)
  /\ \A i \in DOMAIN cues :
       /\ i > 1 => cues[i - 1].originalRow < cues[i].originalRow
       /\ cues[i].scheduleItem
            = Field(cells[cues[i].originalRow], headers, "schedule item")
       /\ cues[i].cueTitle = Field(cells[cues[i].originalRow], headers, "cue title")

\* cues are the rows of the sheet that have an item and a title, in the
\* order of the sheet
CuesAreValidRows(cues, sheet) ==
  CuesAreRows(cues, GetDataRangeTyped(sheet), LowerHeaders(GetDataRangeTyped(sheet)))

\* C20: in every run of generateProfessionalCueSheet on a workbook with a
\* 'Cue Builder' sheet, what getCueBuilderData returns is, in the order of
\* the sheet, exactly the data rows with a schedule item and a cue title
\* that are not empty; and when it is empty the run alerts 'No Data' and
\* creates, clears or changes no sheet
C20_ValidRowsOrNoDataNoChange ==
  [][(cueRun'.op = "generate" /\ cueBuilder.exists) =>
       /\ CuesAreValidRows(cueRun'.cueData, cueBuilder)
       /\ Len(cueRun'.cueData) = 0 =>
            /\ cueRun'.alert = "No Data"
            /\ cueSheet' = cueSheet
            /\ cueBuilder' = cueBuilder
            /\ schedule' = schedule]_vars

\* a run on a sheet whose three data rows all lack an item or a title, in a
\* workbook that has a cue sheet of an earlier run
C20_Witness ==
  /\ cueRun.op = "generate"
  /\ cueRun.alert = "No Data"
  /\ Len(cueBuilder.cells) = 4
  /\ schedule = NoSheet
  /\ cueSheet = PutSheet(NoCueSheets, "Gala - Cue Sheet", StaleCueSheet)

(***************************************************************************)
(* C21: when two overlapping calls with different emails both take the     *)
(* no-match branch and both read the last row number before either writes  *)
(* (so both have the same new row), both write to that row: the Roster     *)
(* ends at that row, one row below the last row the calls read, so the two *)
(* calls have added one Record between them: that of one of the two        *)
(* contacts.  The state is reached (C21_Witness), with no Record of the    *)
(* other contact in the Roster.                                            *)
(***************************************************************************)
\* the call of p took the no-match branch and has written its row
WroteNewRow(p) ==
  /\ Ended(p)
  /\ frame[p].writes = 1
  /\ frame[p].existingRowIndex = -1

\* the calls of p and q had different emails, matched no Record, and read
\* the same last row number
SameNewRow(p, q) ==
  /\ p # q
  /\ WroteNewRow(p) /\ WroteNewRow(q)
  /\ frame[p].data["email"] # frame[q].data["email"]
  /\ frame[p].targetRow = frame[q].targetRow

C21_SameRowLosesRecord ==
  \A p, q \in Procs :
    SameNewRow(p, q) =>
      /\ Len(peopleSheet.cells) = frame[p].targetRow
      /\ Cardinality({r \in Records(peopleSheet) :
                        /\ r >= frame[p].targetRow
                        /\ EmailOf(peopleSheet, r)
                             \in {frame[p].data["email"], frame[q].data["email"]}}) = 1
      /\ \/ peopleSheet.cells[frame[p].targetRow] = ArrayValues(frame[p].rowData)
         \/ peopleSheet.cells[frame[p].targetRow] = ArrayValues(frame[q].rowData)

\* the calls for dee@x.com and ANA@X.COM both found two Records and both
\* wrote row 4; the Roster has three Records, none with dee@x.com
C21_Witness ==
  /\ SameNewRow(1, 2)
  /\ frame[1].data["email"] = "dee@x.com"
  /\ frame[2].data["email"] = "ANA@X.COM"
  /\ frame[1].targetRow = 4
  /\ frame[1].logged = "Added new person" /\ frame[2].logged = "Added new person"
  /\ NumRecords(peopleSheet) = 3
  /\ RecordsWithEmail(peopleSheet, "dee@x.com") = {}
  /\ RecordsWithEmail(peopleSheet, "ANA@X.COM") = {4}

(***************************************************************************)
(* C22: when the task management changes the Assigned Tasks cell of the    *)
(* matched Record after the call has read that cell and before the call    *)
(* writes the row, the row write puts back the value the call read: the    *)
(* cell holds the value it had before the change, and the task             *)
(* management's value is lost.  The state is reached (C22_Witness).        *)
(***************************************************************************)
\* a change to the row the current call of process 1 writes, made after the
\* call's read of Assigned Tasks and before its write
AfterTheRead(e) ==
  e.call = calls /\ e.during = "WRITE_ROW" /\ e.row = frame[1].targetRow

\* ... made after the call's write
AfterTheWrite(e) ==
  e.call = calls /\ e.during = "END" /\ e.row = frame[1].targetRow

\* the call of process 1 matched a Record and has written its row, and the
\* Record's Assigned Tasks were changed between the call's read and write
\* and not since
TasksChangedUnderCall ==
  /\ Completed(1)
  /\ frame[1].existingRowIndex # -1
  /\ ColIndex(frame[1].headers, "Assigned Tasks") # 0
  /\ SelectSeq(taskEdits, AfterTheRead) # << >>
  /\ SelectSeq(taskEdits, AfterTheWrite) = << >>

\* the Assigned Tasks cell of the row the call of process 1 wrote
TasksCellWritten ==
  Cell(peopleSheet, frame[1].targetRow, ColIndex(frame[1].headers, "Assigned Tasks"))

C22_WriteRestoresStaleTasks ==
  TasksChangedUnderCall =>
    /\ TasksCellWritten = SelectSeq(taskEdits, AfterTheRead)[1].old
    /\ TasksCellWritten # SelectSeq(taskEdits, AfterTheRead)[1].value

\* the call for ana@x.com read 'Signage'; the task management then set the
\* cell to 'Stage'; after the call's write the cell holds 'Signage'
C22_Witness ==
  /\ TasksChangedUnderCall
  /\ frame[1].data["email"] = "ana@x.com"
  /\ frame[1].logged = "Updated existing person"
  /\ SelectSeq(taskEdits, AfterTheRead)[1].old = "Signage"
  /\ SelectSeq(taskEdits, AfterTheRead)[1].value = "Stage"
  /\ TasksCellWritten = "Signage"

(***************************************************************************)
(* C23: the Roster a call leaves does not depend on the notes of the       *)
(* incoming contact: from the sheet the call found, the contact with any   *)
(* other notes, or with none, gives the Roster the call gave; and no cell  *)
(* the call changed holds the contact's notes.                             *)
(***************************************************************************)
\* notes a contact may carry
NoteVariants == {"", "Dietary: vegan", "vip", "Signage"}

WithNotes(data, n) ==
  [k \in DOMAIN data \cup {"notes"} |-> IF k = "notes" THEN n ELSE data[k]]

WithoutNotes(data) == [k \in DOMAIN data \ {"notes"} |-> data[k]]

\* the cells of the sheet that differ from what they were when the call of
\* p was entered
ChangedCells(p) ==
  {rc \in (1 .. Len(peopleSheet.cells)) \X (1 .. GetLastColumn(peopleSheet)) :
     Cell(peopleSheet, rc[1], rc[2]) # Cell(frame[p].before, rc[1], rc[2])}

C23_RosterIndependentOfNotes ==
  \A p \in Procs :
    (Ended(p) /\ frame[p].called) =>
      /\ AddOrUpdateResult(frame[p].before, WithoutNotes(frame[p].data)) = peopleSheet
      /\ \A n \in NoteVariants :
           AddOrUpdateResult(frame[p].before, WithNotes(frame[p].data, n)) = peopleSheet
      /\ OrEmpty(frame[p].data, "notes") # "" =>
           \A rc \in ChangedCells(p) :
             Cell(peopleSheet, rc[1], rc[2]) # frame[p].data["notes"]

\* a registration whose answers gave notes has matched a Record of the
\* eight-column sheet, which has a Notes column: the row written has no notes
C23_Witness ==
  /\ Completed(1)
  /\ frame[1].caller = "processRegistrationForm"
  /\ OrEmpty(frame[1].data, "notes") # ""
  /\ GetLastColumn(frame[1].before) = 8
  /\ ColIndex(frame[1].headers, "Notes") # 0
  /\ frame[1].existingRowIndex # -1
  /\ peopleSheet # frame[1].before
  /\ Cell(peopleSheet, frame[1].targetRow, ColIndex(frame[1].headers, "Notes")) = ""
  /\ AddOrUpdateResult(frame[1].before, WithNotes(frame[1].data, "vip")) = peopleSheet

====
